---------------------------- MODULE Spec2Model ----------------------------
(***************************************************************************)
(* Security finding aggregation and risk classification of the            *)
(* hardening-workflows scripts: the report parsers, the risk classifier,  *)
(* the action-item generator and the comment renderers.                   *)
(*                                                                         *)
(* Text is modelled at the level of characters: a JavaScript string is a  *)
(* sequence of one-character strings, so that split, trim, includes,      *)
(* parseInt and the two regular expressions are computed as the code      *)
(* computes them.                                                          *)
(***************************************************************************)
EXTENDS Integers, Sequences, FiniteSets, TLC

VARIABLES pc, op, arg, ret

vars == <<pc, op, arg, ret>>

(***************************************************************************)
(* Bounds of the model.                                                    *)
(***************************************************************************)
\* the longest table (data rows after the header) of a generated SAST report
MaxRows == 2
\* the largest count of a generated container TOTAL row
MaxCount == 1
\* the largest count handed to the classifier and the action-item generator
MaxVuln == 7

(***************************************************************************)
(* Strings: the JavaScript string operations the scripts use.              *)
(***************************************************************************)
WhiteSpace == {" ", "\t", "\r", "\n"}

Digits == <<"0", "1", "2", "3", "4", "5", "6", "7", "8", "9">>

IsDigit(ch) == \E d \in 1..10 : Digits[d] = ch

DigitVal(ch) == (CHOOSE d \in 1..10 : Digits[d] = ch) - 1

Min(S) == CHOOSE x \in S : \A y \in S : x <= y

\* does the literal lit occur in s at position i
StartsWithAt(s, i, lit) ==
    /\ i >= 1
    /\ i + Len(lit) - 1 <= Len(s)
    /\ \A k \in 1..Len(lit) : s[i + k - 1] = lit[k]

\* String.prototype.indexOf(lit, from), 1-based, 0 when absent
IndexOf(s, lit, from) ==
    LET hits == {i \in from..(Len(s) - Len(lit) + 1) : StartsWithAt(s, i, lit)}
    IN  IF hits = {} THEN 0 ELSE Min(hits)

\* String.prototype.includes
includes(s, lit) == IndexOf(s, lit, 1) # 0

\* String.prototype.split on a one-character separator
RECURSIVE split(_, _)
split(s, sep) ==
    LET i == IndexOf(s, <<sep>>, 1)
    IN  IF i = 0 THEN <<s>>
        ELSE <<SubSeq(s, 1, i - 1)>> \o split(SubSeq(s, i + 1, Len(s)), sep)

\* String.prototype.trim
trim(s) ==
    LET keep == {i \in 1..Len(s) : s[i] \notin WhiteSpace}
    IN  IF keep = {} THEN <<>>
        ELSE SubSeq(s, Min(keep), CHOOSE i \in keep : \A j \in keep : j <= i)

\* the value of a run of decimal digits
RECURSIVE DigitsValue(_)
DigitsValue(s) ==
    IF s = <<>> THEN 0
    ELSE 10 * DigitsValue(SubSeq(s, 1, Len(s) - 1)) + DigitVal(s[Len(s)])

\* the longest prefix of s made of digits
DigitPrefix(s) ==
    LET stop == {i \in 1..Len(s) : ~IsDigit(s[i])}
    IN  IF stop = {} THEN s ELSE SubSeq(s, 1, Min(stop) - 1)

NaN == [nan |-> TRUE, val |-> 0]

\* parseInt(s): leading white space skipped, an optional sign, then the
\* longest run of digits; NaN when there is no digit.
parseInt(s) ==
    LET lead == {i \in 1..Len(s) : s[i] \notin WhiteSpace}
        t    == IF lead = {} THEN <<>> ELSE SubSeq(s, Min(lead), Len(s))
        sgn  == IF t # <<>> /\ t[1] = "-" THEN -1 ELSE 1
        u    == IF t # <<>> /\ t[1] \in {"-", "+"} THEN Tail(t) ELSE t
        ds   == DigitPrefix(u)
    IN  IF ds = <<>> THEN NaN ELSE [nan |-> FALSE, val |-> sgn * DigitsValue(ds)]

\* the idiom  parseInt(x) || 0 : NaN and 0 are falsy
OrZero(v) == IF v.nan THEN 0 ELSE v.val

\* a number interpolated in a template literal
RECURSIVE NatToString(_)
NatToString(n) ==
    IF n < 10 THEN <<Digits[n + 1]>>
    ELSE NatToString(n \div 10) \o <<Digits[(n % 10) + 1]>>

ToStr(n) == IF n < 0 THEN <<"-">> \o NatToString(-n) ELSE NatToString(n)

\* Array.prototype.join with a separator string
RECURSIVE join(_, _)
join(parts, sep) ==
    IF parts = <<>> THEN <<>>
    ELSE IF Len(parts) = 1 THEN parts[1]
    ELSE parts[1] \o sep \o join(Tail(parts), sep)

(***************************************************************************)
(* Report Parser (parseSASTReport, parseContainerReport).                  *)
(***************************************************************************)
\* the literal the SAST regular expression starts with
SASTHeader ==
    <<"|"," ","T","o","o","l"," ","|"," ","C","r","i","t","i","c","a","l"," ",
      "|"," ","H","i","g","h"," ","|"," ","M","e","d","i","u","m"," ","|"," ",
      "L","o","w"," ","|"," ","T","o","t","a","l"," ","|"," ","S","t","a","t",
      "u","s"," ","|">>

NoMatch == [matched |-> FALSE, groups |-> <<>>]

\* reportContent.match(/<SASTHeader>(.*?)(?=\n\n|\n\|)/s): the first header,
\* then the shortest text (newlines included) that is followed by a blank line
\* or by a line that starts with a pipe.  No such place: no match.
tableMatch(reportContent) ==
    LET h == IndexOf(reportContent, SASTHeader, 1)
        e == h + Len(SASTHeader)
        stops == {j \in e..(Len(reportContent) + 1) :
                     \/ StartsWithAt(reportContent, j, <<"\n", "\n">>)
                     \/ StartsWithAt(reportContent, j, <<"\n", "|">>)}
    IN  IF h = 0 \/ stops = {} THEN NoMatch
        ELSE [matched |-> TRUE,
              groups  |-> <<SubSeq(reportContent, e, Min(stops) - 1)>>]

\* row.split('|').map(p => p.trim()).filter(p => p)
rowParts(row) ==
    LET cells == split(row, "|")
        trimmed == [i \in 1..Len(cells) |-> trim(cells[i])]
    IN  SelectSeq(trimmed, LAMBDA p : p # <<>>)

EmptySASTData ==
    [tools |-> <<>>, totalCritical |-> 0, totalHigh |-> 0,
     totalMedium |-> 0, totalLow |-> 0]

\* the body of rows.forEach in parseSASTReport, applied to one row
sastRow(data, row) ==
    LET parts == rowParts(row)
    IN  IF Len(parts) >= 7 /\ parts[1] # <<"-", "-", "-">>
        THEN LET tool == [name     |-> parts[1],
                          critical |-> OrZero(parseInt(parts[2])),
                          high     |-> OrZero(parseInt(parts[3])),
                          medium   |-> OrZero(parseInt(parts[4])),
                          low      |-> OrZero(parseInt(parts[5])),
                          total    |-> OrZero(parseInt(parts[6])),
                          status   |-> parts[7]]
             IN  IF ~includes(parts[1], <<"T", "O", "T", "A", "L">>)
                 THEN [tools         |-> Append(data.tools, tool),
                       totalCritical |-> data.totalCritical + tool.critical,
                       totalHigh     |-> data.totalHigh + tool.high,
                       totalMedium   |-> data.totalMedium + tool.medium,
                       totalLow      |-> data.totalLow + tool.low]
                 ELSE data
        ELSE data

RECURSIVE sastRows(_, _)
sastRows(data, rows) ==
    IF rows = <<>> THEN data
    ELSE sastRows(sastRow(data, Head(rows)), Tail(rows))

\* parseSASTReport that reads the rows of the whole text when the header
\* is not found
parseSASTReport_wholeText(reportContent) ==
    LET m == tableMatch(reportContent)
        body == IF m.matched THEN m.groups[1] ELSE reportContent
        rows == SelectSeq(split(body, "\n"), LAMBDA row : includes(row, <<"|">>))
    IN  sastRows(EmptySASTData, rows)

parseSASTReport(reportContent) ==
    LET m == tableMatch(reportContent)
    IN  IF m.matched
        THEN LET rows == SelectSeq(split(m.groups[1], "\n"),
                                   LAMBDA row : includes(row, <<"|">>))
             IN  sastRows(EmptySASTData, rows)
        ELSE EmptySASTData

\* A regular expression made of literals and (\d+) groups, matched at i.
\* An item is a literal (a sequence of characters) or the string "digits".
RECURSIVE matchItems(_, _, _, _)
matchItems(s, i, items, groups) ==
    IF items = <<>> THEN [matched |-> TRUE, groups |-> groups, next |-> i]
    ELSE LET it == Head(items)
         IN  IF it = <<"\\d+">>
             THEN LET ds == DigitPrefix(SubSeq(s, i, Len(s)))
                  IN  IF ds = <<>> THEN [matched |-> FALSE, groups |-> <<>>, next |-> 0]
                      ELSE matchItems(s, i + Len(ds), Tail(items), Append(groups, ds))
             ELSE IF StartsWithAt(s, i, it)
                  THEN matchItems(s, i + Len(it), Tail(items), groups)
                  ELSE [matched |-> FALSE, groups |-> <<>>, next |-> 0]

\* the first match of the items at or after position from
searchItems(s, items, from) ==
    LET hits == {i \in from..Len(s) : matchItems(s, i, items, <<>>).matched}
    IN  IF hits = {} THEN [matched |-> FALSE, groups |-> <<>>, next |-> 0]
        ELSE matchItems(s, Min(hits), items, <<>>)

DigitsGroup == <<"\\d+">>

Stars == <<"*", "*", " ", "|", " ", "*", "*">>

\* /\| \*\*TOTAL\*\* \| \*\*(\d+)\*\* \| ... \| \*\*(\d+)\*\* \|/ : five groups
TotalRowPattern ==
    << <<"|"," ","*","*","T","O","T","A","L","*","*"," ","|"," ","*","*">>,
       DigitsGroup, Stars, DigitsGroup, Stars, DigitsGroup, Stars,
       DigitsGroup, Stars, DigitsGroup, <<"*", "*", " ", "|">> >>

\* totalMatch that takes the last TOTAL row of the text
totalMatch_last(reportContent) ==
    LET hits == {i \in 1..Len(reportContent) :
                    matchItems(reportContent, i, TotalRowPattern, <<>>).matched}
    IN  IF hits = {} THEN [matched |-> FALSE, groups |-> <<>>, next |-> 0]
        ELSE matchItems(reportContent, CHOOSE i \in hits : \A j \in hits : j <= i,
                        TotalRowPattern, <<>>)

totalMatch(reportContent) == searchItems(reportContent, TotalRowPattern, 1)

ScannedPattern ==
    << <<"|"," ","C","o","n","t","a","i","n","e","r","s"," ","S","c","a","n",
         "n","e","d"," ","|"," ">>, DigitsGroup, <<" ", "|">> >>

FailuresPattern ==
    << <<"|"," ","B","u","i","l","d"," ","F","a","i","l","u","r","e","s"," ",
         "|"," ">>, DigitsGroup, <<" ", "|">> >>

\* /\| Containers Scanned \| (\d+) \|.*?\| Build Failures \| (\d+) \|/s :
\* the first 'Containers Scanned' row, then the first 'Build Failures' row
\* anywhere after it.
scanMatch(reportContent) ==
    LET a == searchItems(reportContent, ScannedPattern, 1)
        b == IF a.matched THEN searchItems(reportContent, FailuresPattern, a.next)
             ELSE a
    IN  IF a.matched /\ b.matched
        THEN [matched |-> TRUE, groups |-> a.groups \o b.groups]
        ELSE NoMatch

parseContainerReport(reportContent) ==
    LET t == totalMatch(reportContent)
        s == scanMatch(reportContent)
    IN  [containers        |-> <<>>,
         totalCritical     |-> IF t.matched THEN OrZero(parseInt(t.groups[1])) ELSE 0,
         totalHigh         |-> IF t.matched THEN OrZero(parseInt(t.groups[2])) ELSE 0,
         totalMedium       |-> IF t.matched THEN OrZero(parseInt(t.groups[3])) ELSE 0,
         totalLow          |-> IF t.matched THEN OrZero(parseInt(t.groups[4])) ELSE 0,
         scannedContainers |-> IF s.matched THEN OrZero(parseInt(s.groups[1])) ELSE 0,
         buildFailures     |-> IF s.matched THEN OrZero(parseInt(s.groups[2])) ELSE 0]

(***************************************************************************)
(* The report texts handed to the parsers.  A SAST report is a heading,   *)
(* the table header (or none) and up to MaxRows rows, each on its own     *)
(* line; a container report is a scan overview, a detail row and the      *)
(* bolded TOTAL row.                                                       *)
(***************************************************************************)
Sep == <<" ", "|", " ">>

\* | name | critical | high | medium | low | total | status |
RowLine(r) ==
    <<"|", " ">> \o r.name \o Sep \o join(r.cells, Sep) \o Sep \o r.status
        \o <<" ", "|">>

Row(name, cells, status) == [name |-> name, cells |-> cells, status |-> status]

Ok == <<"o", "k">>

\* a row written from known counts, its Total cell their sum
ToolRow(name, c, h, m, l) ==
    Row(name, <<ToStr(c), ToStr(h), ToStr(m), ToStr(l), ToStr(c + h + m + l)>>, Ok)

Dashes(n) == [i \in 1..n |-> "-"]

SeparatorRow(n) ==
    Row(Dashes(n), <<Dashes(n), Dashes(n), Dashes(n), Dashes(n), Dashes(n)>>, Dashes(n))

CodeQL == <<"C","o","d","e","Q","L">>
Bandit == <<"B","a","n","d","i","t">>
Trivy == <<"T","r","i","v","y">>
BoldTotal == <<"*","*","T","O","T","A","L","*","*">>

\* rows all of whose count cells are decimal numerals that add up
WellFormedRows == {ToolRow(CodeQL, 0, 0, 0, 0), ToolRow(Bandit, 2, 6, 14, 0)}

\* the separator under a header, in two lengths, and the aggregate row
SeparatorRows == {SeparatorRow(3), SeparatorRow(6)}

TotalRows == {ToolRow(BoldTotal, 2, 6, 14, 0)}

\* rows with one cell that is no count: text, nothing, a negative number
OddCells == {<<"x">>, <<>>, <<"-", "3">>}

OddRows == {Row(Trivy, <<cell, ToStr(1), ToStr(0), ToStr(0), ToStr(1)>>, Ok) :
               cell \in OddCells}

\* a row whose Total cell is not the sum of its counts
DriftRows == {Row(Trivy, <<ToStr(1), ToStr(1), ToStr(1), ToStr(1), ToStr(9)>>, Ok)}

Rows == WellFormedRows \cup SeparatorRows \cup TotalRows \cup OddRows \cup DriftRows

RECURSIVE SeqsUpTo(_, _)
SeqsUpTo(S, n) ==
    IF n = 0 THEN {<<>>}
    ELSE LET shorter == SeqsUpTo(S, n - 1)
         IN  shorter \cup {Append(q, x) : q \in {t \in shorter : Len(t) = n - 1}, x \in S}

Heading == <<"#", "\n", "\n">>

SASTReports ==
    [kind : {"sast"}, header : BOOLEAN, indent : {<<>>, <<" ">>},
     rows : SeqsUpTo(Rows, MaxRows), tail : {<<"\n">>, <<"\n", "\n">>}]

RECURSIVE RowLines(_, _)
RowLines(rows, indent) ==
    IF rows = <<>> THEN <<>>
    ELSE <<"\n">> \o indent \o RowLine(Head(rows)) \o RowLines(Tail(rows), indent)

SASTText(d) ==
    Heading \o (IF d.header THEN SASTHeader ELSE <<>>) \o RowLines(d.rows, d.indent)
        \o d.tail

ContainerReports ==
    [kind : {"container"}, total : BOOLEAN, overview : BOOLEAN,
     counts : [1..4 -> 0..MaxCount], drift : {0, 1}, again : BOOLEAN]

Bold(n) == <<"*", "*">> \o ToStr(n) \o <<"*", "*">>

ContainerText(d) ==
    LET c == d.counts
        e == c[1] + c[2] + c[3] + c[4] + d.drift
    IN  Heading
        \o (IF d.overview
            THEN <<"|"," ","C","o","n","t","a","i","n","e","r","s"," ","S","c","a","n","n","e","d"," ","|"," ","2"," ","|">> \o <<"\n">> \o <<"|"," ","B","u","i","l","d"," ","F","a","i","l","u","r","e","s"," ","|"," ","1"," ","|">> \o <<"\n">>
            ELSE <<>>)
        \o <<"|", " ">> \o join(<<<<"a","p","p">>, ToStr(c[1]), ToStr(c[2]), ToStr(c[3]),
                                  ToStr(c[4]), ToStr(e)>>, Sep) \o <<" ", "|", "\n">>
        \o (IF d.total
            THEN <<"|", " ">> \o join(<<BoldTotal, Bold(c[1]), Bold(c[2]), Bold(c[3]),
                                        Bold(c[4]), Bold(e)>>, Sep) \o <<" ", "|", "\n">>
            ELSE <<>>)
        \o (IF d.total /\ d.again
            THEN <<"|", " ">> \o join(<<BoldTotal, Bold(c[1] + 1), Bold(c[2] + 1),
                                        Bold(c[3] + 1), Bold(c[4] + 1), Bold(e + 4)>>, Sep)
                 \o <<" ", "|", "\n">>
            ELSE <<>>)

Reports == SASTReports \cup ContainerReports

ReportText(d) == IF d.kind = "sast" THEN SASTText(d) ELSE ContainerText(d)

(***************************************************************************)
(* The calls.  Every function of the scripts is stateless: a call takes   *)
(* its arguments, returns, and leaves nothing behind.  A state is the     *)
(* latest call: the function (op), its arguments (arg), what it returned  *)
(* (ret).                                                                   *)
(***************************************************************************)
InitParse ==
    /\ pc = "ready"
    /\ op = "none"
    /\ \E d \in Reports : arg = [report |-> d, reportContent |-> ReportText(d)]
    /\ ret = "none"

CallParseSASTReport ==
    /\ pc = "ready"
    /\ "reportContent" \in DOMAIN arg
    /\ pc' = "returned"
    /\ op' = "parseSASTReport"
    /\ ret' = parseSASTReport(arg.reportContent)
    /\ UNCHANGED arg

CallParseContainerReport ==
    /\ pc = "ready"
    /\ "reportContent" \in DOMAIN arg
    /\ pc' = "returned"
    /\ op' = "parseContainerReport"
    /\ ret' = parseContainerReport(arg.reportContent)
    /\ UNCHANGED arg

NextParse == CallParseSASTReport \/ CallParseContainerReport

SpecParse == InitParse /\ [][NextParse]_vars

(***************************************************************************)
(* Risk Classifier and Action-Item Generator, in both script families:    *)
(* the top-level script, and .github/scripts/enhanced-pr-comment.js whose *)
(* definitions carry the prefix epc_.                                      *)
(*                                                                         *)
(* A template literal is the sequence of its pieces: each fixed piece of  *)
(* text is one element (a character outside ASCII is written [U+code point]), each     *)
(* interpolated number is its decimal digits.  No fixed piece of a line   *)
(* holds a newline.                                                        *)
(***************************************************************************)
\* getRiskLevel that names its third level MEDIUM, a name the lookup tables
\* do not have
getRiskLevel_medium(critical, high) ==
    IF critical > 0 THEN "CRITICAL"
    ELSE IF high > 5 THEN "HIGH"
    ELSE IF high > 0 THEN "MEDIUM"
    ELSE "LOW"

\* getRiskLevel with the HIGH threshold off by one (high >= 5)
getRiskLevel_offByOne(critical, high) ==
    IF critical > 0 THEN "CRITICAL"
    ELSE IF high >= 5 THEN "HIGH"
    ELSE IF high > 0 THEN "MODERATE"
    ELSE "LOW"

\* getRiskLevel with the test of the high count ahead of the critical one
getRiskLevel_highFirst(critical, high) ==
    IF high > 5 THEN "HIGH"
    ELSE IF critical > 0 THEN "CRITICAL"
    ELSE IF high > 0 THEN "MODERATE"
    ELSE "LOW"

getRiskLevel(critical, high) ==
    IF critical > 0 THEN "CRITICAL"
    ELSE IF high > 5 THEN "HIGH"
    ELSE IF high > 0 THEN "MODERATE"
    ELSE "LOW"

epc_getRiskLevel(critical, high) ==
    IF critical > 0 THEN "CRITICAL"
    ELSE IF high > 5 THEN "HIGH"
    ELSE IF high > 0 THEN "MODERATE"
    ELSE "LOW"

UrgentTag == "[U+1F6A8] **URGENT**: "
HighTag == "[U+26A0][U+FE0F] **HIGH**: "
MediumTag == "[U+1F7E1] **MEDIUM**: "
GreatJobLine == <<"[U+2705] **GREAT JOB**: No high-priority security issues found!">>

\* generateActionItems whose last test forgets the medium count
generateActionItems_forgetMedium(critical, high, medium) ==
    LET items ==
            (IF critical > 0
             THEN << <<UrgentTag>> \o ToStr(critical)
                       \o <<" critical vulnerabilities need immediate attention">> >>
             ELSE <<>>)
         \o (IF high > 0
             THEN << <<HighTag>> \o ToStr(high)
                       \o <<" high-severity vulnerabilities to address within 24h">> >>
             ELSE <<>>)
         \o (IF medium > 0
             THEN << <<MediumTag>> \o ToStr(medium)
                       \o <<" medium issues for next sprint">> >>
             ELSE <<>>)
         \o (IF critical = 0 /\ high = 0
             THEN <<GreatJobLine>>
             ELSE <<>>)
    IN  join(items, <<"\n">>)

generateActionItems(critical, high, medium) ==
    LET items ==
            (IF critical > 0
             THEN << <<UrgentTag>> \o ToStr(critical)
                       \o <<" critical vulnerabilities need immediate attention">> >>
             ELSE <<>>)
         \o (IF high > 0
             THEN << <<HighTag>> \o ToStr(high)
                       \o <<" high-severity vulnerabilities to address within 24h">> >>
             ELSE <<>>)
         \o (IF medium > 0
             THEN << <<MediumTag>> \o ToStr(medium)
                       \o <<" medium issues for next sprint">> >>
             ELSE <<>>)
         \o (IF critical = 0 /\ high = 0 /\ medium = 0
             THEN <<GreatJobLine>>
             ELSE <<>>)
    IN  join(items, <<"\n">>)

\* epc_generateActionItems whose high line is pushed before the critical line
\* and carries the critical count
epc_generateActionItems_swapped(vulnerabilities) ==
    LET items ==
            (IF vulnerabilities.high > 0
             THEN << <<HighTag>> \o ToStr(vulnerabilities.critical)
                       \o <<" high-severity issues to address within 24h">> >>
             ELSE <<>>)
         \o (IF vulnerabilities.critical > 0
             THEN << <<UrgentTag>> \o ToStr(vulnerabilities.critical)
                       \o <<" critical issues need immediate attention">> >>
             ELSE <<>>)
         \o (IF vulnerabilities.medium > 0
             THEN << <<MediumTag>> \o ToStr(vulnerabilities.medium)
                       \o <<" medium issues for next sprint">> >>
             ELSE <<>>)
         \o (IF /\ vulnerabilities.critical = 0
                /\ vulnerabilities.high = 0
                /\ vulnerabilities.medium = 0
             THEN <<GreatJobLine>>
             ELSE <<>>)
    IN  IF Len(items) > 0 THEN join(items, <<"\n">>) ELSE <<>>

epc_generateActionItems(vulnerabilities) ==
    LET items ==
            (IF vulnerabilities.critical > 0
             THEN << <<UrgentTag>> \o ToStr(vulnerabilities.critical)
                       \o <<" critical issues need immediate attention">> >>
             ELSE <<>>)
         \o (IF vulnerabilities.high > 0
             THEN << <<HighTag>> \o ToStr(vulnerabilities.high)
                       \o <<" high-severity issues to address within 24h">> >>
             ELSE <<>>)
         \o (IF vulnerabilities.medium > 0
             THEN << <<MediumTag>> \o ToStr(vulnerabilities.medium)
                       \o <<" medium issues for next sprint">> >>
             ELSE <<>>)
         \o (IF /\ vulnerabilities.critical = 0
                /\ vulnerabilities.high = 0
                /\ vulnerabilities.medium = 0
             THEN <<GreatJobLine>>
             ELSE <<>>)
    IN  IF Len(items) > 0 THEN join(items, <<"\n">>) ELSE <<>>

\* the counts handed to the classifier and to the generator
Vulnerabilities == [critical : 0..MaxVuln, high : 0..MaxVuln, medium : 0..MaxVuln]

InitRisk ==
    /\ pc = "ready"
    /\ op = "none"
    /\ arg \in Vulnerabilities
    /\ ret = "none"

CallGetRiskLevel ==
    /\ pc = "ready"
    /\ "critical" \in DOMAIN arg
    /\ pc' = "returned"
    /\ op' = "getRiskLevel"
    /\ ret' = getRiskLevel(arg.critical, arg.high)
    /\ UNCHANGED arg

CallEpcGetRiskLevel ==
    /\ pc = "ready"
    /\ "critical" \in DOMAIN arg
    /\ pc' = "returned"
    /\ op' = "epc_getRiskLevel"
    /\ ret' = epc_getRiskLevel(arg.critical, arg.high)
    /\ UNCHANGED arg

CallGenerateActionItems ==
    /\ pc = "ready"
    /\ "critical" \in DOMAIN arg
    /\ pc' = "returned"
    /\ op' = "generateActionItems"
    /\ ret' = generateActionItems(arg.critical, arg.high, arg.medium)
    /\ UNCHANGED arg

CallEpcGenerateActionItems ==
    /\ pc = "ready"
    /\ "critical" \in DOMAIN arg
    /\ pc' = "returned"
    /\ op' = "epc_generateActionItems"
    /\ ret' = epc_generateActionItems(arg)
    /\ UNCHANGED arg

NextRisk ==
    \/ CallGetRiskLevel
    \/ CallEpcGetRiskLevel
    \/ CallGenerateActionItems
    \/ CallEpcGenerateActionItems

SpecRisk == InitRisk /\ [][NextRisk]_vars

(***************************************************************************)
(* Comment Renderer.  The value of new Date().toLocaleString() read by a  *)
(* renderer is its last parameter, now.                                    *)
(***************************************************************************)
NL == <<"\n">>

getRiskBadge(riskLevel) ==
    IF riskLevel = "CRITICAL"
    THEN <<"![Critical](https://img.shields.io/badge/Risk-CRITICAL-red)">>
    ELSE IF riskLevel = "HIGH"
    THEN <<"![High](https://img.shields.io/badge/Risk-HIGH-orange)">>
    ELSE IF riskLevel = "MODERATE"
    THEN <<"![Moderate](https://img.shields.io/badge/Risk-MODERATE-yellow)">>
    ELSE IF riskLevel = "LOW"
    THEN <<"![Low](https://img.shields.io/badge/Risk-LOW-green)">>
    ELSE <<"![Unknown](https://img.shields.io/badge/Risk-UNKNOWN-gray)">>

epc_getRiskEmoji(riskLevel) ==
    CASE riskLevel = "CRITICAL" -> <<"[U+1F6A8]">>
      [] riskLevel = "HIGH"     -> <<"[U+26A0][U+FE0F]">>
      [] riskLevel = "MODERATE" -> <<"[U+1F7E1]">>
      [] riskLevel = "LOW"      -> <<"[U+2705]">>
      [] OTHER                  -> <<"[U+1F4CA]">>

epc_getRiskBadge(riskLevel) ==
    CASE riskLevel = "CRITICAL"
           -> <<"![Critical](https://img.shields.io/badge/Risk-CRITICAL-red)">>
      [] riskLevel = "HIGH"
           -> <<"![High](https://img.shields.io/badge/Risk-HIGH-orange)">>
      [] riskLevel = "MODERATE"
           -> <<"![Moderate](https://img.shields.io/badge/Risk-MODERATE-yellow)">>
      [] riskLevel = "LOW"
           -> <<"![Low](https://img.shields.io/badge/Risk-LOW-green)">>
      [] OTHER
           -> <<"![Unknown](https://img.shields.io/badge/Risk-UNKNOWN-gray)">>

\* the row of one tool in the Tool Results table
toolLine(t) ==
    <<"| ">> \o t.name \o <<" | ">> \o ToStr(t.critical) \o <<" | ">>
        \o ToStr(t.high) \o <<" | ">> \o ToStr(t.medium) \o <<" | ">>
        \o ToStr(t.low) \o <<" | ">> \o t.status \o <<" |">>

generateEnhancedSASTComment(sastData, runId, repoOwner, repoName, now) ==
    LET totalCritical == sastData.totalCritical
        totalHigh     == sastData.totalHigh
        totalMedium   == sastData.totalMedium
        totalLow      == sastData.totalLow
        tools         == sastData.tools
        totalVulns    == totalCritical + totalHigh + totalMedium + totalLow
        riskLevel     == getRiskLevel(totalCritical, totalHigh)
        riskEmoji     == IF totalCritical > 0 THEN <<"[U+1F6A8]">>
                         ELSE IF totalHigh > 0 THEN <<"[U+26A0][U+FE0F]">>
                         ELSE <<"[U+2705]">>
    IN  <<"## [U+1F50D] SAST Security Analysis ">> \o riskEmoji \o NL \o NL
        \o <<"### [U+1F4CA] Quick Summary">> \o NL \o getRiskBadge(riskLevel)
        \o <<" **Risk Level: ">> \o <<riskLevel>> \o <<"**">> \o NL \o NL
        \o <<"| [U+1F6A8] Critical | [U+26A0][U+FE0F] High | [U+1F7E1] Medium | [U+1F535] Low | [U+1F4CA] Total |">>
        \o NL
        \o <<"|-------------|---------|-----------|---------|----------|">>
        \o NL \o <<"| **">> \o ToStr(totalCritical) \o <<"** | **">>
        \o ToStr(totalHigh) \o <<"** | **">> \o ToStr(totalMedium)
        \o <<"** | **">> \o ToStr(totalLow) \o <<"** | **">>
        \o ToStr(totalVulns) \o <<"** |">> \o NL \o NL
        \o generateActionItems(totalCritical, totalHigh, totalMedium) \o NL
        \o NL \o <<"### [U+1F4E5] Quick Access">> \o NL
        \o <<"- [U+1F4CB] **[Download All SAST Reports](https://github.com/">>
        \o <<repoOwner>> \o <<"/">> \o <<repoName>> \o <<"/actions/runs/">>
        \o <<runId>> \o <<"#artifacts)**">> \o NL
        \o <<"- [U+1F50D] **[View in GitHub Security](https://github.com/">>
        \o <<repoOwner>> \o <<"/">> \o <<repoName>>
        \o <<"/security/code-scanning)**">> \o NL
        \o <<"- [U+2699][U+FE0F] **[Configure Dependabot](https://github.com/">>
        \o <<repoOwner>> \o <<"/">> \o <<repoName>>
        \o <<"/settings/security_analysis)**">> \o NL \o NL \o <<"<details>">>
        \o NL
        \o <<"<summary>[U+1F6E0][U+FE0F] <strong>Tool Results</strong> (">>
        \o ToStr(Len(tools)) \o <<" tools ran)</summary>">> \o NL \o NL
        \o <<"| Tool | Critical | High | Medium | Low | Status |">> \o NL
        \o <<"|------|----------|------|--------|-----|--------|">> \o NL
        \o join([i \in 1..Len(tools) |-> toolLine(tools[i])], NL) \o NL \o NL
        \o <<"</details>">> \o NL \o NL \o <<"<details>">> \o NL
        \o <<"<summary>[U+1F6A8] <strong>Priority Findings</strong></summary>">>
        \o NL \o NL
        \o (IF totalCritical > 0
         THEN NL \o <<"#### [U+1F6A8] Critical Issues (">> \o ToStr(totalCritical)
                \o <<")">> \o NL \o <<"- Require immediate attention">> \o NL
                \o <<"- Block deployment until resolved">> \o NL
                \o <<"- [Download detailed reports](https://github.com/">>
                \o <<repoOwner>> \o <<"/">> \o <<repoName>> \o <<"/actions/runs/">>
                \o <<runId>> \o <<"#artifacts)">> \o NL
         ELSE <<>>)
        \o NL \o NL
        \o (IF totalHigh > 0
         THEN NL \o <<"#### [U+26A0][U+FE0F] High Priority Issues (">>
                \o ToStr(totalHigh) \o <<")">> \o NL
                \o <<"- Address within 24 hours">> \o NL
                \o <<"- Review during next development cycle">> \o NL
         ELSE <<>>)
        \o NL \o NL
        \o (IF totalVulns = 0
         THEN NL \o <<"#### [U+2705] No Security Issues Found">> \o NL
                \o <<"Great work! All SAST tools passed without detecting security vulnerabilities.">>
                \o NL
         ELSE <<>>)
        \o NL \o NL \o <<"</details>">> \o NL \o NL \o <<"---">> \o NL
        \o <<"*Generated: ">> \o <<now>>
        \o <<" | [View Workflow](https://github.com/">> \o <<repoOwner>>
        \o <<"/">> \o <<repoName>> \o <<"/actions/runs/">> \o <<runId>>
        \o <<")*">>

generateEnhancedContainerComment(containerData, runId, repoOwner, repoName, now) ==
    LET totalCritical     == containerData.totalCritical
        totalHigh         == containerData.totalHigh
        totalMedium       == containerData.totalMedium
        totalLow          == containerData.totalLow
        scannedContainers == containerData.scannedContainers
        buildFailures     == containerData.buildFailures
        totalVulns        == totalCritical + totalHigh + totalMedium + totalLow
        riskLevel         == getRiskLevel(totalCritical, totalHigh)
        riskEmoji         == IF totalCritical > 0 THEN <<"[U+1F6A8]">>
                             ELSE IF totalHigh > 0 THEN <<"[U+26A0][U+FE0F]">>
                             ELSE <<"[U+2705]">>
    IN  <<"## [U+1F433] Container Security Analysis ">> \o riskEmoji \o NL
        \o NL \o <<"### [U+1F4CA] Quick Summary">> \o NL
        \o getRiskBadge(riskLevel) \o <<" **Risk Level: ">> \o <<riskLevel>>
        \o <<"**">> \o NL \o NL
        \o <<"| [U+1F6A8] Critical | [U+26A0][U+FE0F] High | [U+1F7E1] Medium | [U+1F535] Low | [U+1F4E6] Total |">>
        \o NL
        \o <<"|-------------|---------|-----------|---------|----------|">>
        \o NL \o <<"| **">> \o ToStr(totalCritical) \o <<"** | **">>
        \o ToStr(totalHigh) \o <<"** | **">> \o ToStr(totalMedium)
        \o <<"** | **">> \o ToStr(totalLow) \o <<"** | **">>
        \o ToStr(totalVulns) \o <<"** |">> \o NL \o NL
        \o generateActionItems(totalCritical, totalHigh, totalMedium) \o NL
        \o NL \o <<"### [U+1F4E5] Download Reports">> \o NL
        \o <<"- [U+1F4CB] **[Download All Container Reports](https://github.com/">>
        \o <<repoOwner>> \o <<"/">> \o <<repoName>> \o <<"/actions/runs/">>
        \o <<runId>> \o <<"#artifacts)**">> \o NL
        \o <<"- [U+1F50D] **[View Detailed SARIF Results](https://github.com/">>
        \o <<repoOwner>> \o <<"/">> \o <<repoName>>
        \o <<"/security/code-scanning)**">> \o NL \o NL \o <<"<details>">>
        \o NL \o <<"<summary>[U+1F4CB] <strong>Container Details</strong> (">>
        \o ToStr(scannedContainers) \o <<" scanned, ">>
        \o ToStr(buildFailures) \o <<" failures)</summary>">> \o NL \o NL
        \o <<"View detailed container scanning results in the [workflow artifacts](https://github.com/">>
        \o <<repoOwner>> \o <<"/">> \o <<repoName>> \o <<"/actions/runs/">>
        \o <<runId>> \o <<"#artifacts).">> \o NL \o NL \o <<"</details>">>
        \o NL \o NL \o <<"<details>">> \o NL
        \o <<"<summary>[U+1F6E0][U+FE0F] <strong>Remediation Guide</strong></summary>">>
        \o NL \o NL \o <<"#### Immediate Actions (Critical/High)">> \o NL
        \o (IF totalCritical > 0
         THEN NL \o <<"- [U+1F6A8] **">> \o ToStr(totalCritical)
                \o <<" critical vulnerabilities** require immediate patching">> \o NL
                \o <<"- [U+1F4CB] [Download detailed vulnerability report](https://github.com/">>
                \o <<repoOwner>> \o <<"/">> \o <<repoName>> \o <<"/actions/runs/">>
                \o <<runId>> \o <<"#artifacts)">> \o NL
                \o <<"- [U+1F504] Update base images and dependencies">> \o NL
         ELSE <<>>)
        \o NL
        \o (IF totalHigh > 0
         THEN NL \o <<"- [U+26A0][U+FE0F] **">> \o ToStr(totalHigh)
                \o <<" high-severity vulnerabilities** should be addressed within 24h">>
                \o NL
         ELSE <<>>)
        \o NL \o NL \o <<"#### Best Practices">> \o NL
        \o <<"- [U+1F427] Use minimal base images (Alpine, distroless)">>
        \o NL \o <<"- [U+1F3D7][U+FE0F] Implement multi-stage builds">> \o NL
        \o <<"- [U+1F464] Run containers as non-root users">> \o NL
        \o <<"- [U+1F512] Enable GitHub Advanced Security for integrated reporting">>
        \o NL \o NL \o <<"</details>">> \o NL \o NL \o <<"---">> \o NL
        \o <<"*Generated: ">> \o <<now>>
        \o <<" | [View Workflow](https://github.com/">> \o <<repoOwner>>
        \o <<"/">> \o <<repoName>> \o <<"/actions/runs/">> \o <<runId>>
        \o <<")*">>

\* the row of one container in the Container Details table
epc_containerLine(c) ==
    <<"| ">> \o c.name \o <<" | ">> \o ToStr(c.vulnerabilities.critical)
        \o <<" | ">> \o ToStr(c.vulnerabilities.high) \o <<" | ">>
        \o ToStr(c.vulnerabilities.medium) \o <<" | ">>
        \o ToStr(c.vulnerabilities.low) \o <<" | ">> \o ToStr(c.total)
        \o <<" | ">> \o c.buildStatus \o <<" |">>

\* the row of one tool in the Tool Results table
epc_toolLine(t) ==
    <<"| ">> \o t.name \o <<" | ">> \o ToStr(t.vulnerabilities.critical)
        \o <<" | ">> \o ToStr(t.vulnerabilities.high) \o <<" | ">>
        \o ToStr(t.vulnerabilities.medium) \o <<" | ">>
        \o ToStr(t.vulnerabilities.low) \o <<" | ">> \o t.status \o <<" |">>

generateContainerSecurityComment(reportData, runId, repoInfo, now) ==
    LET containers      == reportData.containers
        vulnerabilities == reportData.vulnerabilities
        buildFailures   == reportData.buildFailures
        owner           == repoInfo.owner
        repo            == repoInfo.repo
        totalVulns      == vulnerabilities.critical + vulnerabilities.high
                              + vulnerabilities.medium + vulnerabilities.low
        riskLevel       == epc_getRiskLevel(vulnerabilities.critical, vulnerabilities.high)
        riskEmoji       == epc_getRiskEmoji(riskLevel)
    IN  <<"## [U+1F433] Container Security Analysis ">> \o riskEmoji \o NL
        \o NL \o <<"### [U+1F4CA] Quick Summary">> \o NL
        \o epc_getRiskBadge(riskLevel) \o <<" **Risk Level: ">>
        \o <<riskLevel>> \o <<"**">> \o NL \o NL
        \o <<"| [U+1F6A8] Critical | [U+26A0][U+FE0F] High | [U+1F7E1] Medium | [U+1F535] Low | [U+1F4E6] Total |">>
        \o NL
        \o <<"|-------------|---------|-----------|---------|----------|">>
        \o NL \o <<"| **">> \o ToStr(vulnerabilities.critical)
        \o <<"** | **">> \o ToStr(vulnerabilities.high) \o <<"** | **">>
        \o ToStr(vulnerabilities.medium) \o <<"** | **">>
        \o ToStr(vulnerabilities.low) \o <<"** | **">> \o ToStr(totalVulns)
        \o <<"** |">> \o NL \o NL \o epc_generateActionItems(vulnerabilities)
        \o NL \o NL \o <<"### [U+1F4E5] Download Reports">> \o NL
        \o <<"- [U+1F4CB] **[Download All Container Reports](https://github.com/">>
        \o <<owner>> \o <<"/">> \o <<repo>> \o <<"/actions/runs/">>
        \o <<runId>> \o <<"#artifacts)**">> \o NL
        \o <<"- [U+1F50D] **[View Detailed SARIF Results](https://github.com/">>
        \o <<owner>> \o <<"/">> \o <<repo>>
        \o <<"/security/code-scanning)**">> \o NL \o NL \o <<"<details>">>
        \o NL \o <<"<summary>[U+1F4CB] <strong>Container Details</strong> (">>
        \o ToStr(containers.scanned) \o <<" scanned, ">>
        \o ToStr(buildFailures) \o <<" failures)</summary>">> \o NL \o NL
        \o <<"| Container | Critical | High | Medium | Low | Total | Status |">>
        \o NL
        \o <<"|-----------|----------|------|--------|-----|-------|---------|">>
        \o NL
        \o join([i \in 1..Len(containers.details) |-> epc_containerLine(containers.details[i])], NL)
        \o NL \o NL \o <<"</details>">> \o NL \o NL \o <<"<details>">> \o NL
        \o <<"<summary>[U+1F6E0][U+FE0F] <strong>Remediation Guide</strong></summary>">>
        \o NL \o NL \o <<"#### Immediate Actions (Critical/High)">> \o NL
        \o (IF vulnerabilities.critical > 0
         THEN NL \o <<"- [U+1F6A8] **">> \o ToStr(vulnerabilities.critical)
                \o <<" critical vulnerabilities** require immediate patching">> \o NL
                \o <<"- [U+1F4CB] [Download detailed vulnerability report](https://github.com/">>
                \o <<owner>> \o <<"/">> \o <<repo>> \o <<"/actions/runs/">>
                \o <<runId>> \o <<"#artifacts)">> \o NL
                \o <<"- [U+1F504] Update base images and dependencies">> \o NL
         ELSE <<>>)
        \o NL
        \o (IF vulnerabilities.high > 0
         THEN NL \o <<"- [U+26A0][U+FE0F] **">> \o ToStr(vulnerabilities.high)
                \o <<" high-severity vulnerabilities** should be addressed within 24h">>
                \o NL
         ELSE <<>>)
        \o NL \o NL \o <<"#### Best Practices">> \o NL
        \o <<"- [U+1F427] Use minimal base images (Alpine, distroless)">>
        \o NL \o <<"- [U+1F3D7][U+FE0F] Implement multi-stage builds">> \o NL
        \o <<"- [U+1F464] Run containers as non-root users">> \o NL
        \o <<"- [U+1F512] Enable GitHub Advanced Security for integrated reporting">>
        \o NL \o NL \o <<"</details>">> \o NL \o NL \o <<"---">> \o NL
        \o <<"*Generated: ">> \o <<now>>
        \o <<" | [View Workflow](https://github.com/">> \o <<owner>>
        \o <<"/">> \o <<repo>> \o <<"/actions/runs/">> \o <<runId>>
        \o <<")*">>

generateSASTComment(reportData, runId, repoInfo, now) ==
    LET tools           == reportData.tools
        vulnerabilities == reportData.vulnerabilities
        owner           == repoInfo.owner
        repo            == repoInfo.repo
        totalVulns      == vulnerabilities.critical + vulnerabilities.high
                              + vulnerabilities.medium + vulnerabilities.low
        riskLevel       == epc_getRiskLevel(vulnerabilities.critical, vulnerabilities.high)
        riskEmoji       == epc_getRiskEmoji(riskLevel)
    IN  <<"## [U+1F50D] SAST Security Analysis ">> \o riskEmoji \o NL \o NL
        \o <<"### [U+1F4CA] Quick Summary">> \o NL
        \o epc_getRiskBadge(riskLevel) \o <<" **Risk Level: ">>
        \o <<riskLevel>> \o <<"**">> \o NL \o NL
        \o <<"| [U+1F6A8] Critical | [U+26A0][U+FE0F] High | [U+1F7E1] Medium | [U+1F535] Low | [U+1F4CA] Total |">>
        \o NL
        \o <<"|-------------|---------|-----------|---------|----------|">>
        \o NL \o <<"| **">> \o ToStr(vulnerabilities.critical)
        \o <<"** | **">> \o ToStr(vulnerabilities.high) \o <<"** | **">>
        \o ToStr(vulnerabilities.medium) \o <<"** | **">>
        \o ToStr(vulnerabilities.low) \o <<"** | **">> \o ToStr(totalVulns)
        \o <<"** |">> \o NL \o NL \o epc_generateActionItems(vulnerabilities)
        \o NL \o NL \o <<"### [U+1F4E5] Quick Access">> \o NL
        \o <<"- [U+1F4CB] **[Download All SAST Reports](https://github.com/">>
        \o <<owner>> \o <<"/">> \o <<repo>> \o <<"/actions/runs/">>
        \o <<runId>> \o <<"#artifacts)**">> \o NL
        \o <<"- [U+1F50D] **[View in GitHub Security](https://github.com/">>
        \o <<owner>> \o <<"/">> \o <<repo>>
        \o <<"/security/code-scanning)**">> \o NL
        \o <<"- [U+2699][U+FE0F] **[Configure Dependabot](https://github.com/">>
        \o <<owner>> \o <<"/">> \o <<repo>>
        \o <<"/settings/security_analysis)**">> \o NL \o NL \o <<"<details>">>
        \o NL
        \o <<"<summary>[U+1F6E0][U+FE0F] <strong>Tool Results</strong> (">>
        \o ToStr(Len(tools)) \o <<" tools ran)</summary>">> \o NL \o NL
        \o <<"| Tool | Critical | High | Medium | Low | Status |">> \o NL
        \o <<"|------|----------|------|--------|-----|--------|">> \o NL
        \o join([i \in 1..Len(tools) |-> epc_toolLine(tools[i])], NL) \o NL
        \o NL \o <<"</details>">> \o NL \o NL \o <<"<details>">> \o NL
        \o <<"<summary>[U+1F6A8] <strong>Priority Findings</strong></summary>">>
        \o NL \o NL
        \o (IF vulnerabilities.critical > 0
         THEN NL \o <<"#### [U+1F6A8] Critical Issues (">>
                \o ToStr(vulnerabilities.critical) \o <<")">> \o NL
                \o <<"- Require immediate attention">> \o NL
                \o <<"- Block deployment until resolved">> \o NL
                \o <<"- [Download detailed reports](https://github.com/">>
                \o <<owner>> \o <<"/">> \o <<repo>> \o <<"/actions/runs/">>
                \o <<runId>> \o <<"#artifacts)">> \o NL
         ELSE <<>>)
        \o NL \o NL
        \o (IF vulnerabilities.high > 0
         THEN NL \o <<"#### [U+26A0][U+FE0F] High Priority Issues (">>
                \o ToStr(vulnerabilities.high) \o <<")">> \o NL
                \o <<"- Address within 24 hours">> \o NL
                \o <<"- Review during next development cycle">> \o NL
         ELSE <<>>)
        \o NL \o NL
        \o (IF totalVulns = 0
         THEN NL \o <<"#### [U+2705] No Security Issues Found">> \o NL
                \o <<"Great work! All SAST tools passed without detecting security vulnerabilities.">>
                \o NL
         ELSE <<>>)
        \o NL \o NL \o <<"</details>">> \o NL \o NL \o <<"---">> \o NL
        \o <<"*Generated: ">> \o <<now>>
        \o <<" | [View Workflow](https://github.com/">> \o <<owner>>
        \o <<"/">> \o <<repo>> \o <<"/actions/runs/">> \o <<runId>>
        \o <<")*">>

(***************************************************************************)
(* The calls of the renderers.  The top-level script renders what its     *)
(* parsers returned; the renderers of enhanced-pr-comment.js take a       *)
(* reportData object built by their caller.                                *)
(***************************************************************************)
\* the run context of the script's own example
RunId == "12345"
RepoOwner == "huntridge-labs"
RepoName == "hardening-workflows"

\* two readings of the clock
Times == {"10/17/2025, 10:00:00 AM", "10/17/2025, 10:00:01 AM"}

Counts(c, h, m, l) == [critical |-> c, high |-> h, medium |-> m, low |-> l]

CountVectors == {Counts(0, 0, 0, 0), Counts(2, 6, 14, 0), Counts(0, 1, 1, 1)}

RECURSIVE SumCounts(_)
SumCounts(vs) ==
    IF vs = <<>> THEN Counts(0, 0, 0, 0)
    ELSE LET v == Head(vs)
             r == SumCounts(Tail(vs))
         IN  Counts(v.critical + r.critical, v.high + r.high,
                    v.medium + r.medium, v.low + r.low)

\* a container of reportData.containers.details: its total is a field of its
\* own, set by the caller (drift 0: the sum of its counts)
ContainerDetails ==
    {[name |-> <<"app">>, vulnerabilities |-> v,
      total |-> v.critical + v.high + v.medium + v.low + drift,
      buildStatus |-> <<"success">>] : v \in CountVectors, drift \in {0, 1}}

EpcContainerReports ==
    {[containers      |-> [scanned |-> Len(ds), details |-> ds],
      vulnerabilities |-> SumCounts([i \in 1..Len(ds) |-> ds[i].vulnerabilities]),
      buildFailures   |-> 0] : ds \in SeqsUpTo(ContainerDetails, MaxRows)}

EpcTools ==
    {[name |-> CodeQL, vulnerabilities |-> v, status |-> <<"success">>] :
        v \in CountVectors}

EpcSASTReports ==
    {[tools           |-> ts,
      vulnerabilities |-> SumCounts([i \in 1..Len(ts) |-> ts[i].vulnerabilities])] :
        ts \in SeqsUpTo(EpcTools, MaxRows)}

InitEpc ==
    /\ pc = "ready"
    /\ op = "none"
    /\ \E d \in EpcContainerReports \cup EpcSASTReports :
          arg = [reportData |-> d, runId |-> RunId,
                 repoInfo |-> [owner |-> RepoOwner, repo |-> RepoName]]
    /\ ret = "none"

CallGenerateEnhancedSASTComment ==
    /\ pc = "returned"
    /\ op = "parseSASTReport"
    /\ pc' = "returned"
    /\ op' = "generateEnhancedSASTComment"
    /\ arg' = [sastData |-> ret, runId |-> RunId,
               repoOwner |-> RepoOwner, repoName |-> RepoName]
    /\ \E now \in Times :
          ret' = generateEnhancedSASTComment(ret, RunId, RepoOwner, RepoName, now)

CallGenerateEnhancedContainerComment ==
    /\ pc = "returned"
    /\ op = "parseContainerReport"
    /\ pc' = "returned"
    /\ op' = "generateEnhancedContainerComment"
    /\ arg' = [containerData |-> ret, runId |-> RunId,
               repoOwner |-> RepoOwner, repoName |-> RepoName]
    /\ \E now \in Times :
          ret' = generateEnhancedContainerComment(ret, RunId, RepoOwner, RepoName, now)

CallGenerateContainerSecurityComment ==
    /\ pc = "ready"
    /\ "reportData" \in DOMAIN arg
    /\ "containers" \in DOMAIN arg.reportData
    /\ pc' = "returned"
    /\ op' = "generateContainerSecurityComment"
    /\ \E now \in Times :
          ret' = generateContainerSecurityComment(arg.reportData, arg.runId,
                                                  arg.repoInfo, now)
    /\ UNCHANGED arg

CallGenerateSASTComment ==
    /\ pc = "ready"
    /\ "reportData" \in DOMAIN arg
    /\ "tools" \in DOMAIN arg.reportData
    /\ pc' = "returned"
    /\ op' = "generateSASTComment"
    /\ \E now \in Times :
          ret' = generateSASTComment(arg.reportData, arg.runId, arg.repoInfo, now)
    /\ UNCHANGED arg

InitComment == InitParse \/ InitEpc

NextComment ==
    \/ CallParseSASTReport
    \/ CallParseContainerReport
    \/ CallGenerateEnhancedSASTComment
    \/ CallGenerateEnhancedContainerComment
    \/ CallGenerateContainerSecurityComment
    \/ CallGenerateSASTComment

SpecComment == InitComment /\ [][NextComment]_vars

(***************************************************************************)
(* The overview comments.  generateSecurityOverview of the top-level       *)
(* script hands the work to advanced-pr-enhancements.js when require()     *)
(* finds it; generateSecurityOverviewComment of enhanced-pr-comment.js     *)
(* renders three component reports, each of which may be missing.          *)
(***************************************************************************)
\* null, for a report that was not produced
Null == [null |-> TRUE]

\* undefined, for an argument that was not supplied
Undefined == [undefined |-> TRUE]

\* null or undefined: what ?. stops at, and the only values tried here that
\* are not truthy
Nullish(value) == value = Null \/ value = Undefined

\* data?.field || 0
totalOf(data, field) == IF Nullish(data) THEN 0 ELSE data[field]

\* report?.vulnerabilities.field || 0
countOf(report, field) == IF Nullish(report) THEN 0 ELSE report.vulnerabilities[field]

\* report?.status || 'Pending'
statusOf(report) == IF Nullish(report) THEN <<"Pending">> ELSE report.status

\* the built-in overview: the template the function falls back to
basicSecurityOverview(sastData, containerData, runId, repoOwner, repoName, now) ==
    LET totalCritical == totalOf(sastData, "totalCritical") + totalOf(containerData, "totalCritical")
        totalHigh     == totalOf(sastData, "totalHigh") + totalOf(containerData, "totalHigh")
        totalMedium   == totalOf(sastData, "totalMedium") + totalOf(containerData, "totalMedium")
        totalLow      == totalOf(sastData, "totalLow") + totalOf(containerData, "totalLow")
        totalVulns    == totalCritical + totalHigh + totalMedium + totalLow
        riskLevel     == getRiskLevel(totalCritical, totalHigh)
        riskEmoji     == IF totalCritical > 0 THEN <<"[U+1F6A8]">>
                         ELSE IF totalHigh > 0 THEN <<"[U+26A0][U+FE0F]">>
                         ELSE <<"[U+2705]">>
    IN  <<"## [U+1F6E1][U+FE0F] Security Hardening Pipeline ">> \o riskEmoji
        \o NL \o NL \o <<"### [U+1F3AF] Security Score">> \o NL
        \o getRiskBadge(riskLevel) \o <<" **Overall Risk: ">> \o <<riskLevel>>
        \o <<"**">> \o NL \o NL
        \o <<"| Component | [U+1F6A8] Critical | [U+26A0][U+FE0F] High | [U+1F7E1] Medium | [U+1F535] Low | Status |">>
        \o NL
        \o <<"|-----------|-------------|---------|-----------|---------|---------|">>
        \o NL \o <<"| [U+1F50D] SAST Analysis | ">>
        \o ToStr(totalOf(sastData, "totalCritical")) \o <<" | ">>
        \o ToStr(totalOf(sastData, "totalHigh")) \o <<" | ">>
        \o ToStr(totalOf(sastData, "totalMedium")) \o <<" | ">>
        \o ToStr(totalOf(sastData, "totalLow"))
        \o <<" | [U+2705] Complete |">> \o NL
        \o <<"| [U+1F433] Container Security | ">>
        \o ToStr(totalOf(containerData, "totalCritical")) \o <<" | ">>
        \o ToStr(totalOf(containerData, "totalHigh")) \o <<" | ">>
        \o ToStr(totalOf(containerData, "totalMedium")) \o <<" | ">>
        \o ToStr(totalOf(containerData, "totalLow"))
        \o <<" | [U+2705] Complete |">> \o NL
        \o <<"| **[U+1F3AF] Total** | **">> \o ToStr(totalCritical)
        \o <<"** | **">> \o ToStr(totalHigh) \o <<"** | **">>
        \o ToStr(totalMedium) \o <<"** | **">> \o ToStr(totalLow)
        \o <<"** | **">> \o ToStr(totalVulns) \o <<" issues** |">> \o NL \o NL
        \o <<"### [U+1F680] Next Steps">> \o NL
        \o generateActionItems(totalCritical, totalHigh, totalMedium) \o NL
        \o NL \o <<"### [U+1F4E5] Download All Reports">> \o NL
        \o <<"- [U+1F4CB] **[All Security Artifacts](https://github.com/">>
        \o <<repoOwner>> \o <<"/">> \o <<repoName>> \o <<"/actions/runs/">>
        \o <<runId>> \o <<"#artifacts)**">> \o NL
        \o <<"- [U+1F50D] **[GitHub Security Dashboard](https://github.com/">>
        \o <<repoOwner>> \o <<"/">> \o <<repoName>> \o <<"/security)**">>
        \o NL
        \o <<"- [U+2699][U+FE0F] **[Security Settings](https://github.com/">>
        \o <<repoOwner>> \o <<"/">> \o <<repoName>>
        \o <<"/settings/security_analysis)**">> \o NL \o NL \o <<"---">> \o NL
        \o <<"*Generated: ">> \o <<now>>
        \o <<" | [View Full Workflow](https://github.com/">> \o <<repoOwner>>
        \o <<"/">> \o <<repoName>> \o <<"/actions/runs/">> \o <<runId>>
        \o <<")*">>

generateWorkflowBadges(runId, repoOwner, repoName, workflowStatuses) ==
    LET sastStatus      == IF workflowStatuses.sast THEN "passing" ELSE "failing"
        sastColor       == IF workflowStatuses.sast THEN "brightgreen" ELSE "red"
        containerStatus == IF workflowStatuses.container THEN "passing" ELSE "failing"
        containerColor  == IF workflowStatuses.container THEN "brightgreen" ELSE "red"
        badges == <<<<"![SAST](https://img.shields.io/badge/SAST-">> \o <<sastStatus>>
                    \o <<"-">> \o <<sastColor>> \o <<")">>,
                    <<"![Container](https://img.shields.io/badge/Container-">>
                    \o <<containerStatus>> \o <<"-">> \o <<containerColor>> \o <<")">>>>
    IN  join(badges, <<" ">>)

generateActionButtons(runId, repoOwner, repoName) ==
    NL \o <<"### [U+1F680] Quick Actions">> \o NL \o NL \o <<"<table>">>
    \o NL \o <<"<tr>">> \o NL
    \o <<"<td>[U+1F4E5] <strong>Downloads</strong></td>">> \o NL
    \o <<"<td>[U+1F50D] <strong>Analysis</strong></td>">> \o NL
    \o <<"<td>[U+2699][U+FE0F] <strong>Settings</strong></td>">> \o NL
    \o <<"</tr>">> \o NL \o <<"<tr>">> \o NL \o <<"<td>">> \o NL
    \o <<"[U+2022] <a href=\"https://github.com/">> \o <<repoOwner>>
    \o <<"/">> \o <<repoName>> \o <<"/actions/runs/">> \o <<runId>>
    \o <<"#artifacts\">All Reports</a><br>">> \o NL
    \o <<"[U+2022] <a href=\"https://github.com/">> \o <<repoOwner>>
    \o <<"/">> \o <<repoName>> \o <<"/actions/runs/">> \o <<runId>>
    \o <<"\">Workflow Run</a><br>">> \o NL
    \o <<"[U+2022] <a href=\"https://github.com/">> \o <<repoOwner>>
    \o <<"/">> \o <<repoName>>
    \o <<"/security/code-scanning\">SARIF Results</a>">> \o NL
    \o <<"</td>">> \o NL \o <<"<td>">> \o NL
    \o <<"[U+2022] <a href=\"https://github.com/">> \o <<repoOwner>>
    \o <<"/">> \o <<repoName>>
    \o <<"/security\">Security Dashboard</a><br>">> \o NL
    \o <<"[U+2022] <a href=\"https://github.com/">> \o <<repoOwner>>
    \o <<"/">> \o <<repoName>>
    \o <<"/security/advisories\">Advisories</a><br>">> \o NL
    \o <<"[U+2022] <a href=\"https://github.com/">> \o <<repoOwner>>
    \o <<"/">> \o <<repoName>>
    \o <<"/network/dependencies\">Dependencies</a>">> \o NL \o <<"</td>">>
    \o NL \o <<"<td>">> \o NL
    \o <<"[U+2022] <a href=\"https://github.com/">> \o <<repoOwner>>
    \o <<"/">> \o <<repoName>>
    \o <<"/settings/security_analysis\">Security Settings</a><br>">> \o NL
    \o <<"[U+2022] <a href=\"https://github.com/">> \o <<repoOwner>>
    \o <<"/">> \o <<repoName>>
    \o <<"/settings/actions\">Actions Settings</a><br>">> \o NL
    \o <<"[U+2022] <a href=\"https://github.com/">> \o <<repoOwner>>
    \o <<"/">> \o <<repoName>>
    \o <<"/settings/branches\">Branch Protection</a>">> \o NL
    \o <<"</td>">> \o NL \o <<"</tr>">> \o NL \o <<"</table>">>

\* the card pushed for sastData
sastCard(d) ==
    LET total == d.totalCritical + d.totalHigh + d.totalMedium + d.totalLow
    IN  NL \o <<"<table>">> \o NL
        \o <<"<tr><th colspan=\"2\">[U+1F50D] SAST Analysis</th></tr>">> \o NL
        \o <<"<tr><td>[U+1F6A8] Critical</td><td><strong>">>
        \o ToStr(d.totalCritical) \o <<"</strong></td></tr>">> \o NL
        \o <<"<tr><td>[U+26A0][U+FE0F] High</td><td><strong>">>
        \o ToStr(d.totalHigh) \o <<"</strong></td></tr>">> \o NL
        \o <<"<tr><td>[U+1F7E1] Medium</td><td>">> \o ToStr(d.totalMedium)
        \o <<"</td></tr>">> \o NL \o <<"<tr><td>[U+1F535] Low</td><td>">>
        \o ToStr(d.totalLow) \o <<"</td></tr>">> \o NL
        \o <<"<tr><td><strong>[U+1F4CA] Total</strong></td><td><strong>">>
        \o ToStr(total) \o <<"</strong></td></tr>">> \o NL \o <<"</table>">>

\* the card pushed for containerData
containerCard(d) ==
    LET total == d.totalCritical + d.totalHigh + d.totalMedium + d.totalLow
    IN  NL \o <<"<table>">> \o NL
        \o <<"<tr><th colspan=\"2\">[U+1F433] Container Security</th></tr>">>
        \o NL \o <<"<tr><td>[U+1F6A8] Critical</td><td><strong>">>
        \o ToStr(d.totalCritical) \o <<"</strong></td></tr>">> \o NL
        \o <<"<tr><td>[U+26A0][U+FE0F] High</td><td><strong>">>
        \o ToStr(d.totalHigh) \o <<"</strong></td></tr>">> \o NL
        \o <<"<tr><td>[U+1F7E1] Medium</td><td>">> \o ToStr(d.totalMedium)
        \o <<"</td></tr>">> \o NL \o <<"<tr><td>[U+1F535] Low</td><td>">>
        \o ToStr(d.totalLow) \o <<"</td></tr>">> \o NL
        \o <<"<tr><td><strong>[U+1F4E6] Total</strong></td><td><strong>">>
        \o ToStr(total) \o <<"</strong></td></tr>">> \o NL \o <<"</table>">>

generateSummaryCards(sastData, containerData) ==
    LET cards == (IF ~Nullish(sastData) THEN <<sastCard(sastData)>> ELSE <<>>)
                 \o (IF ~Nullish(containerData) THEN <<containerCard(containerData)>> ELSE <<>>)
    IN  NL \o <<"<div align=\"center\">">> \o NL \o NL \o join(cards, NL)
        \o NL \o NL \o <<"</div>">>

\* the guide for the code findings with its collapsible section left open
codeGuide_unclosed ==
    NL \o <<"#### [U+1F527] Code Security Issues">> \o NL \o NL
    \o <<"<details>">> \o NL
    \o <<"<summary><strong>Common Fixes</strong></summary>">>

\* the guide pushed for the code findings
codeGuide ==
    NL \o <<"#### [U+1F527] Code Security Issues">> \o NL \o NL
    \o <<"<details>">> \o NL
    \o <<"<summary><strong>Common Fixes</strong></summary>">> \o NL \o NL
    \o <<"[U+0060][U+0060][U+0060]python">> \o NL
    \o <<"# Example: Fix SQL Injection">> \o NL
    \o <<"# Before (vulnerable)">> \o NL
    \o <<"query = f\"SELECT * FROM users WHERE id = {user_id}\"">> \o NL
    \o NL \o <<"# After (secure)">> \o NL
    \o <<"query = \"SELECT * FROM users WHERE id = %s\"">> \o NL
    \o <<"cursor.execute(query, (user_id,))">> \o NL
    \o <<"[U+0060][U+0060][U+0060]">> \o NL \o NL
    \o <<"[U+0060][U+0060][U+0060]javascript">> \o NL
    \o <<"// Example: Fix XSS">> \o NL \o <<"// Before (vulnerable)">>
    \o NL \o <<"element.innerHTML = userInput;">> \o NL \o NL
    \o <<"// After (secure)">> \o NL
    \o <<"element.textContent = userInput;">> \o NL
    \o <<"[U+0060][U+0060][U+0060]">> \o NL \o NL \o <<"</details>">>

\* the guide pushed for the container findings
containerGuide ==
    NL \o <<"#### [U+1F433] Container Security Fixes">> \o NL \o NL
    \o <<"<details>">> \o NL
    \o <<"<summary><strong>Dockerfile Best Practices</strong></summary>">>
    \o NL \o NL \o <<"[U+0060][U+0060][U+0060]dockerfile">> \o NL
    \o <<"# Use specific, minimal base images">> \o NL
    \o <<"FROM alpine:3.18 AS base">> \o NL \o NL
    \o <<"# Create non-root user">> \o NL
    \o <<"RUN addgroup -g 1001 -S nodejs && [U+005C]">> \o NL
    \o <<"    adduser -S nextjs -u 1001">> \o NL \o NL
    \o <<"# Use multi-stage builds">> \o NL
    \o <<"FROM base AS dependencies">> \o NL
    \o <<"COPY package*.json ./">> \o NL
    \o <<"RUN npm ci --only=production">> \o NL \o NL
    \o <<"FROM base AS runner">> \o NL \o <<"USER nextjs">> \o NL
    \o <<"COPY --from=dependencies --chown=nextjs:nodejs /app .">> \o NL
    \o <<"[U+0060][U+0060][U+0060]">> \o NL \o NL \o <<"</details>">>

generateEnhancedRemediationGuide(sastData, containerData) ==
    LET guides ==
          (IF ~Nullish(sastData) /\ (sastData.totalCritical > 0 \/ sastData.totalHigh > 0)
           THEN <<codeGuide>> ELSE <<>>)
          \o (IF ~Nullish(containerData)
                  /\ (containerData.totalCritical > 0 \/ containerData.totalHigh > 0)
              THEN <<containerGuide>> ELSE <<>>)
    IN  join(guides, NL)

generateComprehensiveSecurityOverview(sastData, containerData, runId, repoOwner, repoName, now) ==
    LET totalCritical == totalOf(sastData, "totalCritical") + totalOf(containerData, "totalCritical")
        totalHigh     == totalOf(sastData, "totalHigh") + totalOf(containerData, "totalHigh")
        totalMedium   == totalOf(sastData, "totalMedium") + totalOf(containerData, "totalMedium")
        totalLow      == totalOf(sastData, "totalLow") + totalOf(containerData, "totalLow")
        totalVulns    == totalCritical + totalHigh + totalMedium + totalLow
        riskLevel     == IF totalCritical > 0 THEN "CRITICAL"
                         ELSE IF totalHigh > 0 THEN "HIGH" ELSE "LOW"
        riskEmoji     == IF totalCritical > 0 THEN <<"[U+1F6A8]">>
                         ELSE IF totalHigh > 0 THEN <<"[U+26A0][U+FE0F]">>
                         ELSE <<"[U+2705]">>
        workflowStatuses == [sast |-> sastData # Null, container |-> containerData # Null]
        \* lines of the template, in order
        dashboard ==
            <<"## [U+1F6E1][U+FE0F] Security Hardening Pipeline ">> \o riskEmoji
            \o NL \o NL
            \o generateWorkflowBadges(runId, repoOwner, repoName, workflowStatuses)
            \o NL \o NL \o <<"### [U+1F3AF] Security Dashboard">> \o NL \o NL
            \o <<"<div align=\"center\">">> \o NL \o NL
            \o <<"![Risk Level](https://img.shields.io/badge/Risk-">>
            \o <<riskLevel>> \o <<"-">>
            \o <<IF riskLevel = "CRITICAL" THEN "red" ELSE IF riskLevel = "HIGH" THEN "orange" ELSE "green">>
            \o <<")">> \o NL
            \o <<"![Total Issues](https://img.shields.io/badge/Total_Issues-">>
            \o ToStr(totalVulns) \o <<"-">>
            \o <<IF totalVulns > 0 THEN "red" ELSE "green">> \o <<")">> \o NL
            \o <<"![Scans Complete](https://img.shields.io/badge/Scans-Complete-brightgreen)">>
            \o NL \o NL \o <<"</div>">> \o NL \o NL
            \o generateSummaryCards(sastData, containerData) \o NL
        priorityActions ==
            <<"### [U+1F6A8] Priority Actions">> \o NL \o NL
            \o (IF totalCritical > 0
             THEN NL \o <<"> **[U+1F6A8] CRITICAL**: ">> \o ToStr(totalCritical)
                    \o <<" critical vulnerabilities require **immediate attention**">>
                    \o NL \o <<"> These issues should be fixed before merging this PR.">>
             ELSE <<>>)
            \o NL \o NL
            \o (IF totalHigh > 0
             THEN NL \o <<"> **[U+26A0][U+FE0F] HIGH**: ">> \o ToStr(totalHigh)
                    \o <<" high-severity vulnerabilities should be addressed **within 24 hours**">>
             ELSE <<>>)
            \o NL \o NL
            \o (IF totalVulns = 0
             THEN NL
                    \o <<"> **[U+2705] EXCELLENT**: No security vulnerabilities detected!">>
                    \o NL \o <<"> Your code meets security best practices.">>
             ELSE <<>>)
            \o NL \o NL \o generateActionButtons(runId, repoOwner, repoName) \o NL
        detailedAnalysis ==
            <<"<details>">> \o NL
            \o <<"<summary>[U+1F4CA] <strong>Detailed Analysis</strong></summary>">>
            \o NL \o NL
            \o <<"| Component | [U+1F6A8] Critical | [U+26A0][U+FE0F] High | [U+1F7E1] Medium | [U+1F535] Low | Status |">>
            \o NL
            \o <<"|-----------|-------------|---------|-----------|---------|---------|">>
            \o NL \o <<"| [U+1F50D] SAST Analysis | ">>
            \o ToStr(totalOf(sastData, "totalCritical")) \o <<" | ">>
            \o ToStr(totalOf(sastData, "totalHigh")) \o <<" | ">>
            \o ToStr(totalOf(sastData, "totalMedium")) \o <<" | ">>
            \o ToStr(totalOf(sastData, "totalLow")) \o <<" | ">>
            \o (IF ~Nullish(sastData) THEN <<"[U+2705] Complete">> ELSE <<"[U+26A0][U+FE0F] Pending">>)
            \o <<" |">> \o NL \o <<"| [U+1F433] Container Security | ">>
            \o ToStr(totalOf(containerData, "totalCritical")) \o <<" | ">>
            \o ToStr(totalOf(containerData, "totalHigh")) \o <<" | ">>
            \o ToStr(totalOf(containerData, "totalMedium")) \o <<" | ">>
            \o ToStr(totalOf(containerData, "totalLow")) \o <<" | ">>
            \o (IF ~Nullish(containerData) THEN <<"[U+2705] Complete">> ELSE <<"[U+26A0][U+FE0F] Pending">>)
            \o <<" |">> \o NL \o <<"| **[U+1F3AF] Total** | **">>
            \o ToStr(totalCritical) \o <<"** | **">> \o ToStr(totalHigh)
            \o <<"** | **">> \o ToStr(totalMedium) \o <<"** | **">>
            \o ToStr(totalLow) \o <<"** | **">> \o ToStr(totalVulns)
            \o <<" issues** |">> \o NL \o NL \o <<"</details>">> \o NL \o NL
            \o generateEnhancedRemediationGuide(sastData, containerData) \o NL
        aboutThisReport ==
            <<"<details>">> \o NL
            \o <<"<summary>[U+2139][U+FE0F] <strong>About This Report</strong></summary>">>
            \o NL \o NL
            \o <<"This automated security analysis helps identify potential vulnerabilities before they reach production.">>
            \o NL \o NL \o <<"**What's included:**">> \o NL
            \o <<"- [U+1F50D] **Static Analysis (SAST)** - Code-level security scanning">>
            \o NL
            \o <<"- [U+1F433] **Container Security** - Image vulnerability scanning">>
            \o NL
            \o <<"- [U+1F4CB] **Dependency Analysis** - Known CVE detection">>
            \o NL
            \o <<"- [U+1F512] **Secret Detection** - Credential leak prevention">>
            \o NL \o NL \o <<"**Next Steps:**">> \o NL
            \o <<"1. Download detailed reports from [workflow artifacts](https://github.com/">>
            \o <<repoOwner>> \o <<"/">> \o <<repoName>> \o <<"/actions/runs/">>
            \o <<runId>> \o <<"#artifacts)">> \o NL
            \o <<"2. Review findings in the [Security Dashboard](https://github.com/">>
            \o <<repoOwner>> \o <<"/">> \o <<repoName>> \o <<"/security)">> \o NL
            \o <<"3. Address critical and high-severity issues first">> \o NL
            \o <<"4. Consider enabling [GitHub Advanced Security](https://github.com/">>
            \o <<repoOwner>> \o <<"/">> \o <<repoName>>
            \o <<"/settings/security_analysis) for enhanced features">> \o NL
            \o NL \o <<"</details>">> \o NL \o NL \o <<"---">> \o NL
            \o <<"*[U+1F916] Generated: ">> \o <<now>>
            \o <<" | [View Full Workflow](https://github.com/">> \o <<repoOwner>>
            \o <<"/">> \o <<repoName>> \o <<"/actions/runs/">> \o <<runId>>
            \o <<") | [Security Settings](https://github.com/">> \o <<repoOwner>>
            \o <<"/">> \o <<repoName>> \o <<"/settings/security_analysis)*">>
    IN  dashboard \o NL \o priorityActions \o NL \o detailedAnalysis \o NL \o aboutThisReport

generateSASTSummary(sast) ==
    <<"- ">> \o ToStr(Len(sast.tools)) \o <<" tools executed">> \o NL
    \o <<"- ">>
    \o ToStr(sast.vulnerabilities.critical + sast.vulnerabilities.high
               + sast.vulnerabilities.medium + sast.vulnerabilities.low)
    \o <<" total findings">> \o NL \o <<"- Status: ">> \o sast.status

generateContainerSummary(container) ==
    <<"- ">> \o ToStr(container.containers.scanned)
    \o <<" containers scanned">> \o NL \o <<"- ">>
    \o ToStr(container.buildFailures) \o <<" build failures">> \o NL
    \o <<"- ">>
    \o ToStr(container.vulnerabilities.critical + container.vulnerabilities.high
               + container.vulnerabilities.medium + container.vulnerabilities.low)
    \o <<" total vulnerabilities">> \o NL \o <<"- Status: ">>
    \o container.status

generateInfrastructureSummary(infrastructure) ==
    <<"- Terraform security analysis">> \o NL \o <<"- ">>
    \o ToStr(infrastructure.vulnerabilities.critical + infrastructure.vulnerabilities.high
               + infrastructure.vulnerabilities.medium + infrastructure.vulnerabilities.low)
    \o <<" total findings">> \o NL \o <<"- Status: ">>
    \o infrastructure.status

generateSecurityOverviewComment(allReports, runId, repoInfo, now) ==
    LET owner          == repoInfo.owner
        repo           == repoInfo.repo
        sast           == allReports.sast
        container      == allReports.container
        infrastructure == allReports.infrastructure
        totalCritical  == countOf(sast, "critical") + countOf(container, "critical")
        totalHigh      == countOf(sast, "high") + countOf(container, "high")
        totalMedium    == countOf(sast, "medium") + countOf(container, "medium")
        totalLow       == countOf(sast, "low") + countOf(container, "low")
        totalVulns     == totalCritical + totalHigh + totalMedium + totalLow
        riskLevel      == epc_getRiskLevel(totalCritical, totalHigh)
        riskEmoji      == epc_getRiskEmoji(riskLevel)
    IN  <<"## [U+1F6E1][U+FE0F] Security Hardening Pipeline ">> \o riskEmoji
        \o NL \o NL \o <<"### [U+1F3AF] Security Score">> \o NL
        \o epc_getRiskBadge(riskLevel) \o <<" **Overall Risk: ">>
        \o <<riskLevel>> \o <<"**">> \o NL \o NL
        \o <<"| Component | [U+1F6A8] Critical | [U+26A0][U+FE0F] High | [U+1F7E1] Medium | [U+1F535] Low | Status |">>
        \o NL
        \o <<"|-----------|-------------|---------|-----------|---------|---------|">>
        \o NL \o <<"| [U+1F50D] SAST Analysis | ">>
        \o ToStr(countOf(sast, "critical")) \o <<" | ">>
        \o ToStr(countOf(sast, "high")) \o <<" | ">>
        \o ToStr(countOf(sast, "medium")) \o <<" | ">>
        \o ToStr(countOf(sast, "low")) \o <<" | ">> \o statusOf(sast)
        \o <<" |">> \o NL \o <<"| [U+1F433] Container Security | ">>
        \o ToStr(countOf(container, "critical")) \o <<" | ">>
        \o ToStr(countOf(container, "high")) \o <<" | ">>
        \o ToStr(countOf(container, "medium")) \o <<" | ">>
        \o ToStr(countOf(container, "low")) \o <<" | ">>
        \o statusOf(container) \o <<" |">> \o NL
        \o <<"| [U+1F3D7][U+FE0F] Infrastructure | ">>
        \o ToStr(countOf(infrastructure, "critical")) \o <<" | ">>
        \o ToStr(countOf(infrastructure, "high")) \o <<" | ">>
        \o ToStr(countOf(infrastructure, "medium")) \o <<" | ">>
        \o ToStr(countOf(infrastructure, "low")) \o <<" | ">>
        \o statusOf(infrastructure) \o <<" |">> \o NL
        \o <<"| **[U+1F3AF] Total** | **">> \o ToStr(totalCritical)
        \o <<"** | **">> \o ToStr(totalHigh) \o <<"** | **">>
        \o ToStr(totalMedium) \o <<"** | **">> \o ToStr(totalLow)
        \o <<"** | **">> \o ToStr(totalVulns) \o <<" issues** |">> \o NL \o NL
        \o <<"### [U+1F680] Next Steps">> \o NL
        \o epc_generateActionItems(Counts(totalCritical, totalHigh, totalMedium, totalLow))
        \o NL \o NL \o <<"### [U+1F4E5] Download All Reports">> \o NL
        \o <<"- [U+1F4CB] **[All Security Artifacts](https://github.com/">>
        \o <<owner>> \o <<"/">> \o <<repo>> \o <<"/actions/runs/">>
        \o <<runId>> \o <<"#artifacts)**">> \o NL
        \o <<"- [U+1F50D] **[GitHub Security Dashboard](https://github.com/">>
        \o <<owner>> \o <<"/">> \o <<repo>> \o <<"/security)**">> \o NL
        \o <<"- [U+2699][U+FE0F] **[Security Settings](https://github.com/">>
        \o <<owner>> \o <<"/">> \o <<repo>>
        \o <<"/settings/security_analysis)**">> \o NL \o NL \o <<"<details>">>
        \o NL
        \o <<"<summary>[U+1F4CA] <strong>Detailed Breakdown</strong></summary>">>
        \o NL \o NL \o <<"#### [U+1F50D] SAST Analysis">> \o NL
        \o (IF ~Nullish(sast) THEN generateSASTSummary(sast) ELSE <<"[U+23F3] Running...">>)
        \o NL \o NL \o <<"#### [U+1F433] Container Security">> \o NL
        \o (IF ~Nullish(container) THEN generateContainerSummary(container) ELSE <<"[U+23F3] Running...">>)
        \o NL \o NL \o <<"#### [U+1F3D7][U+FE0F] Infrastructure Security">>
        \o NL
        \o (IF ~Nullish(infrastructure) THEN generateInfrastructureSummary(infrastructure) ELSE <<"[U+23F3] Running...">>)
        \o NL \o NL \o <<"</details>">> \o NL \o NL \o <<"---">> \o NL
        \o <<"*Generated: ">> \o <<now>>
        \o <<" | [View Full Workflow](https://github.com/">> \o <<owner>>
        \o <<"/">> \o <<repo>> \o <<"/actions/runs/">> \o <<runId>>
        \o <<")*">>

\* what require('./advanced-pr-enhancements.js') can do: fail, or return a
\* module whose generateComprehensiveSecurityOverview returns or raises
ModuleNotFound == [found |-> FALSE]
ModuleLoaded == [found |-> TRUE, raises |-> FALSE]
ModuleRaising == [found |-> TRUE, raises |-> TRUE]

\* how a call ends: it returns a value, or an error leaves it
Return(v) == [kind |-> "return", value |-> v]
Throw(e) == [kind |-> "throw", value |-> e]

\* the overview that never asks for the enhancement module
generateSecurityOverview_alwaysBasic(sastData, containerData, runId, repoOwner, repoName, module, now) ==
    Return(basicSecurityOverview(sastData, containerData, runId, repoOwner, repoName, now))

generateSecurityOverview(sastData, containerData, runId, repoOwner, repoName, module, now) ==
    LET advancedFeatures == IF module.found THEN module ELSE Null
    IN  IF advancedFeatures # Null
        THEN IF advancedFeatures.raises
             THEN Throw("Error")
             ELSE Return(generateComprehensiveSecurityOverview(sastData, containerData,
                                                               runId, repoOwner,
                                                               repoName, now))
        ELSE Return(basicSecurityOverview(sastData, containerData, runId, repoOwner,
                                          repoName, now))

(***************************************************************************)
(* The calls of the overview renderers.                                    *)
(***************************************************************************)
Totals(v) ==
    [totalCritical |-> v.critical, totalHigh |-> v.high,
     totalMedium |-> v.medium, totalLow |-> v.low]

\* sastData and containerData: null, not supplied, or the totals of a parsed
\* report
OverviewData == {Null, Undefined} \cup {Totals(v) : v \in CountVectors}

Modules == {ModuleNotFound, ModuleLoaded, ModuleRaising}

Complete == <<"[U+2705] Complete">>

\* the component reports of allReports
SastReports ==
    {[tools |-> <<[name |-> CodeQL, vulnerabilities |-> v, status |-> <<"success">>]>>,
      vulnerabilities |-> v, status |-> Complete] : v \in CountVectors}

ContainerScanReports ==
    {[containers |-> [scanned |-> 1], buildFailures |-> 0,
      vulnerabilities |-> v, status |-> Complete] : v \in CountVectors}

InfrastructureReports ==
    {[vulnerabilities |-> v, status |-> Complete] : v \in CountVectors}

AllReports ==
    [sast : {Null} \cup SastReports,
     container : {Null} \cup ContainerScanReports,
     infrastructure : {Null} \cup InfrastructureReports]

InitOverview ==
    /\ pc = "ready"
    /\ op = "none"
    /\ \/ \E s \in OverviewData, c \in OverviewData, m \in Modules :
             arg = [sastData |-> s, containerData |-> c, runId |-> RunId,
                    repoOwner |-> RepoOwner, repoName |-> RepoName, module |-> m]
       \/ \E r \in AllReports :
             arg = [allReports |-> r, runId |-> RunId,
                    repoInfo |-> [owner |-> RepoOwner, repo |-> RepoName]]
    /\ ret = "none"

CallGenerateSecurityOverview ==
    /\ pc = "ready"
    /\ "containerData" \in DOMAIN arg
    /\ "module" \in DOMAIN arg
    /\ op' = "generateSecurityOverview"
    /\ \E now \in Times :
          LET outcome == generateSecurityOverview(arg.sastData, arg.containerData,
                                                  arg.runId, arg.repoOwner,
                                                  arg.repoName, arg.module, now)
          IN  /\ pc' = IF outcome.kind = "throw" THEN "threw" ELSE "returned"
              /\ ret' = outcome.value
    /\ UNCHANGED arg

CallGenerateComprehensiveSecurityOverview ==
    /\ pc = "ready"
    /\ "containerData" \in DOMAIN arg
    /\ "module" \in DOMAIN arg
    /\ pc' = "returned"
    /\ op' = "generateComprehensiveSecurityOverview"
    /\ \E now \in Times :
          ret' = generateComprehensiveSecurityOverview(arg.sastData, arg.containerData,
                                                       arg.runId, arg.repoOwner,
                                                       arg.repoName, now)
    /\ UNCHANGED arg

CallGenerateEnhancedRemediationGuide ==
    /\ pc = "ready"
    /\ "containerData" \in DOMAIN arg
    /\ "module" \in DOMAIN arg
    /\ pc' = "returned"
    /\ op' = "generateEnhancedRemediationGuide"
    /\ ret' = generateEnhancedRemediationGuide(arg.sastData, arg.containerData)
    /\ UNCHANGED arg

CallGenerateSecurityOverviewComment ==
    /\ pc = "ready"
    /\ "allReports" \in DOMAIN arg
    /\ pc' = "returned"
    /\ op' = "generateSecurityOverviewComment"
    /\ \E now \in Times :
          ret' = generateSecurityOverviewComment(arg.allReports, arg.runId,
                                                 arg.repoInfo, now)
    /\ UNCHANGED arg

NextOverview ==
    \/ CallGenerateSecurityOverview
    \/ CallGenerateComprehensiveSecurityOverview
    \/ CallGenerateEnhancedRemediationGuide
    \/ CallGenerateSecurityOverviewComment

SpecOverview == InitOverview /\ [][NextOverview]_vars

(***************************************************************************)
(* validate-reusable-workflow-sync.sh: the two reusable workflows are       *)
(* normalized line by line (grep -v, sed, awk) and the results compared     *)
(* with diff.  A file is the sequence of its lines, a line a sequence of    *)
(* characters.                                                              *)
(***************************************************************************)
\* the longest workflow file that is tried
MaxLines == 2

\* the dot of a regular expression
AnyChar == "[any]"

Blank == {" ", "\t"}

\* does the pattern occur in the line at position i
PatternAt(line, i, pattern) ==
    /\ i >= 1
    /\ i + Len(pattern) - 1 <= Len(line)
    /\ \A k \in 1..Len(pattern) :
          pattern[k] = AnyChar \/ line[i + k - 1] = pattern[k]

\* grep pattern: the pattern occurs somewhere in the line
grep(line, pattern) == \E i \in 1..Len(line) : PatternAt(line, i, pattern)

\* the line without its leading blanks: what follows ^\s*
afterBlanks(line) ==
    LET ink == {i \in 1..Len(line) : line[i] \notin Blank}
    IN  IF ink = {} THEN <<>> ELSE SubSeq(line, Min(ink), Len(line))

\* sed 's|pattern|replacement|g'
RECURSIVE sed(_, _, _)
sed(line, pattern, replacement) ==
    LET hits == {i \in 1..Len(line) : PatternAt(line, i, pattern)}
    IN  IF hits = {} THEN line
        ELSE LET i == Min(hits)
             IN  SubSeq(line, 1, i - 1) \o replacement
                   \o sed(SubSeq(line, i + Len(pattern), Len(line)), pattern, replacement)

\* sed -E 's/@[^[:space:]]+//g': an @ and the run of non-blank characters
\* after it are removed
RECURSIVE sedTags(_)
sedTags(line) ==
    LET hits == {i \in 1..(Len(line) - 1) : line[i] = "@" /\ line[i + 1] \notin Blank}
    IN  IF hits = {} THEN line
        ELSE LET i    == Min(hits)
                 ends == {j \in (i + 1)..Len(line) : line[j] \in Blank}
                 e    == IF ends = {} THEN Len(line) + 1 ELSE Min(ends)
             IN  SubSeq(line, 1, i - 1) \o sedTags(SubSeq(line, e, Len(line)))

\* first pass: the patterns of the checkout lines that grep -v removes
CheckoutPatterns ==
    {<<"r","e","p","o","s","i","t","o","r","y",":"," ","h","u","n","t","r","i",
       "d","g","e","-","l","a","b","s","/","h","a","r","d","e","n","i","n","g",
       "-","w","o","r","k","f","l","o","w","s">>,
     <<"p","a","t","h",":"," ",AnyChar,"h","a","r","d","e","n","i","n","g","-",
       "w","o","r","k","f","l","o","w","s">>,
     <<"s","p","a","r","s","e","-","c","h","e","c","k","o","u","t",":">>,
     <<AnyChar,"g","i","t","h","u","b","/","a","c","t","i","o","n","s","/","g",
       "e","t","-","j","o","b","-","i","d","/","a","c","t","i","o","n",AnyChar,
       "y","m","l">>,
     <<"S","k","i","p"," ","t","h","i","s"," ","c","h","e","c","k","o","u","t",
       " ","i","f"," ","w","e","'","r","e"," ","a","l","r","e","a","d","y"," ",
       "i","n"," ","t","h","e"," ","h","a","r","d","e","n","i","n","g","-","w",
       "o","r","k","f","l","o","w","s"," ","r","e","p","o">>,
     <<"i","f",":"," ","g","i","t","h","u","b",AnyChar,"r","e","p","o","s","i",
       "t","o","r","y"," ","!","="," ","'","h","u","n","t","r","i","d","g","e",
       "-","l","a","b","s","/","h","a","r","d","e","n","i","n","g","-","w","o",
       "r","k","f","l","o","w","s","'">>,
     <<"i","f",":"," ","g","i","t","h","u","b",AnyChar,"r","e","p","o","s","i",
       "t","o","r","y"," ","=","="," ","'","h","u","n","t","r","i","d","g","e",
       "-","l","a","b","s","/","h","a","r","d","e","n","i","n","g","-","w","o",
       "r","k","f","l","o","w","s","'">>}


\* grep -v -E 'ref: [^[:space:]]+'
IsRefLine(line) ==
    \E i \in 1..Len(line) :
        /\ PatternAt(line, i, <<"r","e","f",":"," ">>)
        /\ i + 5 <= Len(line)
        /\ line[i + 5] \notin Blank

\* the lines the first pass removes
firstPassDrops(line) ==
    \/ PatternAt(line, 1, <<"#">>)
    \/ \E p \in CheckoutPatterns : grep(line, p)
    \/ IsRefLine(line)


\* second pass: the substitutions, in the order of the pipeline
Substitutions ==
    <<<<<<"h","u","n","t","r","i","d","g","e","-","l","a","b","s","/","h","a","r",
          "d","e","n","i","n","g","-","w","o","r","k","f","l","o","w","s","/",
          AnyChar,"g","i","t","h","u","b","/","w","o","r","k","f","l","o","w","s",
          "/">>,
        <<>>>>,
      <<<<".","/",AnyChar,"g","i","t","h","u","b","/","w","o","r","k","f","l","o",
          "w","s","/">>,
        <<>>>>,
      <<<<"n","a","m","e",":"," ","R","e","u","s","a","b","l","e"," ","S","e","c",
          "u","r","i","t","y"," ","H","a","r","d","e","n","i","n","g"," ","P","i",
          "p","e","l","i","n","e">>,
        <<"n","a","m","e",":"," ","S","e","c","u","r","i","t","y"," ","H","a","r",
          "d","e","n","i","n","g"," ","P","i","p","e","l","i","n","e">>>>,
      <<<<"n","a","m","e",":"," ","P","R"," ","T","e","s","t","i","n","g"," ","-",
          " ","R","e","u","s","a","b","l","e"," ","S","e","c","u","r","i","t","y",
          " ","H","a","r","d","e","n","i","n","g"," ","P","i","p","e","l","i","n",
          "e">>,
        <<"n","a","m","e",":"," ","S","e","c","u","r","i","t","y"," ","H","a","r",
          "d","e","n","i","n","g"," ","P","i","p","e","l","i","n","e">>>>,
      <<<<"n","a","m","e",":"," ","C","h","e","c","k","o","u","t"," ","h","a","r",
          "d","e","n","i","n","g","-","w","o","r","k","f","l","o","w","s"," ","f",
          "o","r"," ","a","c","t","i","o","n","s">>,
        <<"n","a","m","e",":"," ","C","h","e","c","k","o","u","t">>>>,
      <<<<"n","a","m","e",":"," ","C","h","e","c","k","o","u","t"," ","r","e","p",
          "o","s","i","t","o","r","y">>,
        <<"n","a","m","e",":"," ","C","h","e","c","k","o","u","t">>>>,
      <<<<"n","a","m","e",":"," ","G","e","t"," ","j","o","b"," ","I","D"," ","(",
          "e","x","t","e","r","n","a","l",")">>,
        <<"n","a","m","e",":"," ","G","e","t"," ","j","o","b"," ","I","D">>>>,
      <<<<"n","a","m","e",":"," ","G","e","t"," ","j","o","b"," ","I","D"," ","(",
          "l","o","c","a","l",")">>,
        <<"n","a","m","e",":"," ","G","e","t"," ","j","o","b"," ","I","D">>>>,
      <<<<AnyChar,"/",AnyChar,"h","a","r","d","e","n","i","n","g","-","w","o","r",
          "k","f","l","o","w","s","/",AnyChar,"g","i","t","h","u","b","/","a","c",
          "t","i","o","n","s","/">>,
        <<".","/",".","g","i","t","h","u","b","/","a","c","t","i","o","n","s","/">>>>,
      <<<<"i","d",":"," ","j","o","b","_","i","d","_","e","x","t">>,
        <<"i","d",":"," ","j","o","b","_","i","d">>>>,
      <<<<"i","d",":"," ","j","o","b","_","i","d","_","l","o","c","a","l">>,
        <<"i","d",":"," ","j","o","b","_","i","d">>>>>>


RECURSIVE substitute(_, _)
substitute(line, k) ==
    IF k > Len(Substitutions) THEN line
    ELSE substitute(sed(line, Substitutions[k][1], Substitutions[k][2]), k + 1)

\* second pass: the patterns of the job-id lines that grep -v removes
JobIdPatterns ==
    {<<"n","a","m","e",":"," ","S","e","t"," ","j","o","b"," ","I","D"," ","o",
       "u","t","p","u","t">>,
     <<"s","t","e","p","s",AnyChar,"j","o","b","_","i","d","_","l","o","c","a",
       "l",AnyChar,"o","u","t","p","u","t","s",AnyChar,"j","o","b","-","i","d">>,
     <<"s","t","e","p","s",AnyChar,"j","o","b","_","i","d","_","e","x","t",
       AnyChar,"o","u","t","p","u","t","s",AnyChar,"j","o","b","-","i","d">>,
     <<"e","c","h","o"," ","\"","j","o","b","-","i","d","=">>}

\* second pass: grep -v '^\s*run: |', '^\s*if \[', '^\s*else', '^\s*fi'
ShellStarts ==
    {<<"r","u","n",":"," ","|">>,
     <<"i","f"," ","[">>,
     <<"e","l","s","e">>,
     <<"f","i">>}


\* the lines the second pass removes after the substitutions: the job-id
\* lines, the shell lines, the lines that are only with: and the blank lines
secondPassDrops(line) ==
    LET text == afterBlanks(line)
    IN  \/ \E p \in JobIdPatterns : grep(line, p)
        \/ \E p \in ShellStarts : PatternAt(text, 1, p)
        \/ /\ PatternAt(text, 1, <<"w","i","t","h",":">>)
           /\ afterBlanks(SubSeq(text, 6, Len(text))) = <<>>
        \/ text = <<>>

\* awk '!seen[$0]++': the first occurrence of each line, in order
RECURSIVE unique(_, _)
unique(lines, seen) ==
    IF lines = <<>> THEN <<>>
    ELSE IF Head(lines) \in seen THEN unique(Tail(lines), seen)
    ELSE <<Head(lines)>> \o unique(Tail(lines), seen \cup {Head(lines)})

normalize_workflow(file) ==
    LET temp   == SelectSeq(file, LAMBDA line : ~firstPassDrops(line))
        named  == SelectSeq(temp, LAMBDA line : ~PatternAt(line, 1, <<"n","a","m","e",":">>))
        edited == [i \in 1..Len(named) |-> substitute(sedTags(named[i]), 1)]
        kept   == SelectSeq(edited, LAMBDA line : ~secondPassDrops(line))
    IN  unique(kept, {})

\* echo "$X": the lines of the text, one empty line when there is none
echo(text) == IF text = <<>> THEN <<<<>>>> ELSE text

\* diff that only counts the lines of its two inputs
diff_lengthOnly(left, right) ==
    [status |-> IF Len(left) = Len(right) THEN 0 ELSE 1,
     output |-> IF Len(left) = Len(right) THEN <<>>
                ELSE [i \in 1..Len(left) |-> [side |-> "<", line |-> left[i]]]
                       \o [i \in 1..Len(right) |-> [side |-> ">", line |-> right[i]]]]

\* diff: status 0 and no output when the two inputs are the same lines;
\* otherwise status 1 and a report.  diff reports a shortest edit script; what
\* is kept of it here is the region it lies in: the lines between the common
\* start and the common end, those of the left input marked < and those of
\* the right input marked >
diff(left, right) ==
    IF left = right THEN [status |-> 0, output |-> <<>>]
    ELSE LET n     == IF Len(left) < Len(right) THEN Len(left) ELSE Len(right)
             same  == {k \in 0..n : \A i \in 1..k : left[i] = right[i]}
             p     == CHOOSE k \in same : \A j \in same : j <= k
             tails == {k \in 0..(n - p) :
                          \A i \in 1..k : left[Len(left) - i + 1] = right[Len(right) - i + 1]}
             q     == CHOOSE k \in tails : \A j \in tails : j <= k
             gone  == SubSeq(left, p + 1, Len(left) - q)
             come  == SubSeq(right, p + 1, Len(right) - q)
         IN  [status |-> 1,
              output |-> [i \in 1..Len(gone) |-> [side |-> "<", line |-> gone[i]]]
                           \o [i \in 1..Len(come) |-> [side |-> ">", line |-> come[i]]]]

\* head -50
head(lines, n) == SubSeq(lines, 1, IF Len(lines) < n THEN Len(lines) ELSE n)

InSyncMessage == "[U+2705] Workflows are in sync (structurally identical)"
DifferencesMessage == "[U+274C] Workflows have structural differences:"
FailedMessage == "[U+274C] Validation failed - workflows are out of sync"

\* the script: what it prints and its exit status
validate_reusable_workflow_sync(prod, pr) ==
    LET PROD_NORMALIZED == normalize_workflow(prod)
        PR_NORMALIZED   == normalize_workflow(pr)
        compared        == diff(echo(PROD_NORMALIZED), echo(PR_NORMALIZED))
    IN  IF compared.status = 0
        THEN [messages |-> <<InSyncMessage>>, differences |-> <<>>, exit |-> 0]
        ELSE [messages |-> <<DifferencesMessage, FailedMessage>>,
              differences |-> head(compared.output, 50), exit |-> 1]

(***************************************************************************)
(* The runs of the script.                                                  *)
(***************************************************************************)

\* a comment
CommentLine ==
    <<"#"," ","P","R"," ","T","e","s","t","i","n","g"," ","V","e","r","s","i",
      "o","n">>

\* a scanner called by its pinned tag, as the production workflow does
PinnedScanner ==
    <<" "," ","u","s","e","s",":"," ","h","u","n","t","r","i","d","g","e","-",
      "l","a","b","s","/","h","a","r","d","e","n","i","n","g","-","w","o","r",
      "k","f","l","o","w","s","/",".","g","i","t","h","u","b","/","w","o","r",
      "k","f","l","o","w","s","/","s","c","a","n","n","e","r","-","s","y","f",
      "t",".","y","m","l","@","2",".","3",".","1">>

\* the same scanner called by its relative path, as the PR workflow does
RelativeScanner ==
    <<" "," ","u","s","e","s",":"," ",".","/",".","g","i","t","h","u","b","/",
      "w","o","r","k","f","l","o","w","s","/","s","c","a","n","n","e","r","-",
      "s","y","f","t",".","y","m","l">>

\* another scanner
OtherScanner ==
    <<" "," ","u","s","e","s",":"," ",".","/",".","g","i","t","h","u","b","/",
      "w","o","r","k","f","l","o","w","s","/","s","c","a","n","n","e","r","-",
      "t","r","i","v","y",".","y","m","l">>

\* a with: line
WithLine ==
    <<" "," ","w","i","t","h",":">>

\* the name of the checkout step
CheckoutStep ==
    <<" "," ","-"," ","n","a","m","e",":"," ","C","h","e","c","k","o","u","t",
      " ","r","e","p","o","s","i","t","o","r","y">>


WorkflowLines ==
    {CommentLine, PinnedScanner, RelativeScanner, OtherScanner, WithLine, CheckoutStep}

WorkflowFiles == SeqsUpTo(WorkflowLines, MaxLines)

InitSync ==
    /\ pc = "ready"
    /\ op = "none"
    /\ \E prod \in WorkflowFiles, pr \in WorkflowFiles : arg = [prod |-> prod, pr |-> pr]
    /\ ret = "none"

RunValidateReusableWorkflowSync ==
    /\ pc = "ready"
    /\ "prod" \in DOMAIN arg
    /\ pc' = "returned"
    /\ op' = "validate-reusable-workflow-sync.sh"
    /\ ret' = validate_reusable_workflow_sync(arg.prod, arg.pr)
    /\ UNCHANGED arg

NextSync == RunValidateReusableWorkflowSync

SpecSync == InitSync /\ [][NextSync]_vars

(***************************************************************************)
(* Security Badge Generator (security-badges.js).  Labels and messages of  *)
(* a badge are strings of characters, since encodeURIComponent works on    *)
(* characters.  A property of an object that may be missing is read as a   *)
(* sequence: empty when the object has no such property, else its value.   *)
(***************************************************************************)
\* the largest number of workflows, and of blocks of a progress bar
MaxWorkflows == 2
MaxWidth == 4
\* the largest total handed to generateProgressBar
MaxTotal == 6

Letters ==
    {"A","B","C","D","E","F","G","H","I","J","K","L","M","N","O","P","Q","R","S",
     "T","U","V","W","X","Y","Z","a","b","c","d","e","f","g","h","i","j","k","l",
     "m","n","o","p","q","r","s","t","u","v","w","x","y","z"}

\* the characters encodeURIComponent leaves as they are
Unreserved ==
    Letters \cup {Digits[d] : d \in 1..10} \cup {"-", "_", ".", "!", "~", "*", "'", "(", ")"}

\* the escapes of the other ASCII characters of the labels and messages
PercentCode(c) ==
    CASE c = " " -> <<"%", "2", "0">>
      [] c = "/" -> <<"%", "2", "F">>
      [] c = "+" -> <<"%", "2", "B">>
      [] c = "%" -> <<"%", "2", "5">>

RECURSIVE encodeURIComponent(_)
encodeURIComponent(str) ==
    IF str = <<>> THEN <<>>
    ELSE (IF Head(str) \in Unreserved THEN <<Head(str)>> ELSE PercentCode(Head(str)))
         \o encodeURIComponent(Tail(str))

generateBadge(label, message, color, style) ==
    LET encodedLabel   == encodeURIComponent(label)
        encodedMessage == encodeURIComponent(message)
    IN  <<"![">> \o label \o <<"](https://img.shields.io/badge/">> \o encodedLabel
        \o <<"-">> \o encodedMessage \o <<"-">> \o <<color>> \o <<"?style=">>
        \o <<style>> \o <<")">>

SecurityRisk == <<"S", "e", "c", "u", "r", "i", "t", "y", "R", "i", "s", "k">>

generateRiskBadge(critical, high, medium, low) ==
    LET r == IF critical > 0
             THEN [level |-> <<"C", "R", "I", "T", "I", "C", "A", "L">>, color |-> "red", emoji |-> "[U+1F6A8]"]
             ELSE IF high > 5
             THEN [level |-> <<"H", "I", "G", "H">>, color |-> "orange", emoji |-> "[U+26A0][U+FE0F]"]
             ELSE IF high > 0
             THEN [level |-> <<"M", "O", "D", "E", "R", "A", "T", "E">>, color |-> "yellow", emoji |-> "[U+1F7E1]"]
             ELSE IF medium > 0
             THEN [level |-> <<"L", "O", "W">>, color |-> "green", emoji |-> "[U+1F535]"]
             ELSE [level |-> <<"E", "X", "C", "E", "L", "L", "E", "N", "T">>, color |-> "brightgreen", emoji |-> "[U+2705]"]
    IN  <<r.emoji>> \o <<" ">> \o generateBadge(SecurityRisk, r.level, r.color, "flat")

\* the status badges of a workflows object, an ordered list of name and status
RECURSIVE sb_generateWorkflowBadgesOf(_)
sb_generateWorkflowBadgesOf(entries) ==
    IF entries = <<>> THEN <<>>
    ELSE LET status == Head(entries).status
             color  == IF status = <<"s", "u", "c", "c", "e", "s", "s">> THEN "brightgreen"
                       ELSE IF status = <<"f", "a", "i", "l", "u", "r", "e">> THEN "red"
                       ELSE IF status = <<"c", "a", "n", "c", "e", "l", "l", "e", "d">> THEN "lightgray"
                       ELSE "yellow"
         IN  <<generateBadge(Head(entries).name, status, color, "flat")>>
             \o sb_generateWorkflowBadgesOf(Tail(entries))

sb_generateWorkflowBadges(workflows) == join(sb_generateWorkflowBadgesOf(workflows), <<" ">>)

\* Array.prototype.includes
arrayIncludes(array, item) == \E i \in 1..Len(array) : array[i] = item

Compliant == <<"C", "o", "m", "p", "l", "i", "a", "n", "t">>

generateComplianceBadges(standards) ==
    LET badges ==
            (IF arrayIncludes(standards, "SOX")
             THEN <<generateBadge(<<"S", "O", "X">>, Compliant, "blue", "flat")>> ELSE <<>>)
            \o (IF arrayIncludes(standards, "PCI-DSS")
                THEN <<generateBadge(<<"P", "C", "I", "-", "D", "S", "S">>, Compliant, "blue", "flat")>> ELSE <<>>)
            \o (IF arrayIncludes(standards, "GDPR")
                THEN <<generateBadge(<<"G", "D", "P", "R">>, Compliant, "blue", "flat")>> ELSE <<>>)
            \o (IF arrayIncludes(standards, "ISO27001")
                THEN <<generateBadge(<<"I", "S", "O", " ", "2", "7", "0", "0", "1">>, Compliant, "blue", "flat")>> ELSE <<>>)
    IN  join(badges, <<" ">>)

\* a property of an object: empty when the object does not have it
Property(object, name) == IF name \in DOMAIN object THEN <<object[name]>> ELSE <<>>

\* a destructuring default, and the idiom  x || 0  on a count
OrDefault(property, default) == IF property = <<>> THEN default ELSE property[1]

\* the grade and the colour of a score
gradeOf(score) ==
    IF score >= 90 THEN [grade |-> <<"A", "+">>, color |-> "brightgreen"]
    ELSE IF score >= 80 THEN [grade |-> <<"A">>, color |-> "green"]
    ELSE IF score >= 70 THEN [grade |-> <<"B">>, color |-> "yellowgreen"]
    ELSE IF score >= 60 THEN [grade |-> <<"C">>, color |-> "yellow"]
    ELSE IF score >= 50 THEN [grade |-> <<"D">>, color |-> "orange"]
    ELSE [grade |-> <<"F">>, color |-> "red"]

Max(a, b) == IF a >= b THEN a ELSE b

\* generateSecurityScore whose score is not kept above 0
generateSecurityScore_unclamped(vulnerabilities) ==
    LET critical == OrDefault(Property(vulnerabilities, "critical"), 0)
        high     == OrDefault(Property(vulnerabilities, "high"), 0)
        medium   == OrDefault(Property(vulnerabilities, "medium"), 0)
        low      == OrDefault(Property(vulnerabilities, "low"), 0)
        penalty  == (critical * 10) + (high * 5) + (medium * 2) + (low * 1)
        score    == 100 - penalty
        g        == gradeOf(score)
    IN  [score |-> score, grade |-> g.grade,
         badge |-> generateBadge(<<"S", "e", "c", "u", "r", "i", "t", "y", " ", "S", "c", "o", "r", "e">>,
                                 ToStr(score) \o <<"/", "1", "0", "0", " ", "(">> \o g.grade \o <<")">>,
                                 g.color, "flat")]

generateSecurityScore(vulnerabilities) ==
    LET critical == OrDefault(Property(vulnerabilities, "critical"), 0)
        high     == OrDefault(Property(vulnerabilities, "high"), 0)
        medium   == OrDefault(Property(vulnerabilities, "medium"), 0)
        low      == OrDefault(Property(vulnerabilities, "low"), 0)
        maxScore == 100
        penalty  == (critical * 10) + (high * 5) + (medium * 2) + (low * 1)
        score    == Max(0, maxScore - penalty)
        g        == gradeOf(score)
    IN  [score |-> score, grade |-> g.grade,
         badge |-> generateBadge(<<"S", "e", "c", "u", "r", "i", "t", "y", " ", "S", "c", "o", "r", "e">>,
                                 ToStr(score) \o <<"/", "1", "0", "0", " ", "(">> \o g.grade \o <<")">>,
                                 g.color, "flat")]

(***************************************************************************)
(* Number arithmetic of generateProgressBar.  A JavaScript number is an    *)
(* IEEE 754 double: Zero, or a significand of 53 bits, the first of them   *)
(* 1, and an exponent, standing for 1.bbb... * 2^exponent.  Only the        *)
(* numbers >= 0 are needed.                                                *)
(***************************************************************************)
Precision == 53

Zero == [zero |-> TRUE]

Double(bits, exponent) == [zero |-> FALSE, bits |-> bits, exponent |-> exponent]

\* the binary digits of a natural number, none for 0
RECURSIVE binary(_)
binary(n) == IF n = 0 THEN <<>> ELSE binary(n \div 2) \o <<n % 2>>

\* the natural number of binary digits
RECURSIVE valueOf(_)
valueOf(bits) ==
    IF bits = <<>> THEN 0
    ELSE (2 * valueOf(SubSeq(bits, 1, Len(bits) - 1))) + bits[Len(bits)]

\* n binary digits of a natural number below 2^n
digits(v, n) ==
    LET b == binary(v)
    IN  [i \in 1..(n - Len(b)) |-> 0] \o b

\* the digits are worked out a few at a time, Chunk of them, which keeps
\* every intermediate value a small integer
Chunk == 13

\* the next n binary digits of r / d, 0 <= r < d, and what remains of r
RECURSIVE fractionBits(_, _, _)
fractionBits(r, d, n) ==
    IF n = 0 THEN [bits |-> <<>>, rest |-> r]
    ELSE LET k    == IF n < Chunk THEN n ELSE Chunk
             more == fractionBits((r * (2 ^ k)) % d, d, n - k)
         IN  [bits |-> digits((r * (2 ^ k)) \div d, k) \o more.bits, rest |-> more.rest]

\* bits + 1; a carry out of the first bit gives one more digit
increment(bits) ==
    LET zeros == {i \in 1..Len(bits) : bits[i] = 0}
        last  == IF zeros = {} THEN 0 ELSE CHOOSE i \in zeros : \A j \in zeros : j <= i
    IN  SubSeq(bits, 1, last - 1) \o <<1>> \o [i \in 1..(Len(bits) - last) |-> 0]

\* round to nearest, ties to even: bits are the first 53 digits of the exact
\* result, half its next digit, sticky whether any later digit is not 0
roundToNearestEven(bits, half, sticky, exponent) ==
    IF half = 1 /\ (sticky \/ bits[Precision] = 1)
    THEN LET up == increment(bits)
         IN  IF Len(up) > Precision
             THEN Double(SubSeq(up, 1, Precision), exponent + 1)
             ELSE Double(up, exponent)
    ELSE Double(bits, exponent)

\* n / d scaled into 1 <= n / d < 2
RECURSIVE normalize(_, _, _)
normalize(n, d, exponent) ==
    IF n < d THEN normalize(2 * n, d, exponent - 1)
    ELSE IF n >= 2 * d THEN normalize(n, 2 * d, exponent + 1)
    ELSE [n |-> n, d |-> d, exponent |-> exponent]

\* the double current / total of two integers, current >= 0, total > 0
divide(current, total) ==
    IF current = 0 THEN Zero
    ELSE LET q    == normalize(current, total, 0)
             f    == fractionBits(q.n - q.d, q.d, Precision - 1)
             half == IF 2 * f.rest >= q.d THEN 1 ELSE 0
             rest == (2 * f.rest) - (half * q.d)
         IN  roundToNearestEven(<<1>> \o f.bits, half, rest # 0, q.exponent)

\* the digits of bits * factor + carry
RECURSIVE timesBits(_, _, _)
timesBits(bits, factor, carry) ==
    IF bits = <<>> THEN binary(carry)
    ELSE LET k == IF Len(bits) < Chunk THEN Len(bits) ELSE Chunk
             v == (valueOf(SubSeq(bits, Len(bits) - k + 1, Len(bits))) * factor) + carry
         IN  timesBits(SubSeq(bits, 1, Len(bits) - k), factor, v \div (2 ^ k))
             \o digits(v % (2 ^ k), k)

\* the double x * factor of a double and an integer >= 0
times(x, factor) ==
    IF x = Zero \/ factor = 0 THEN Zero
    ELSE LET product == timesBits(x.bits, factor, 0)
             extra   == Len(product) - Precision
             half    == IF extra > 0 THEN product[Precision + 1] ELSE 0
             sticky  == \E i \in (Precision + 2)..Len(product) : product[i] = 1
         IN  roundToNearestEven(SubSeq(product, 1, Precision), half, sticky,
                                x.exponent + extra)

\* Math.round of a double >= 0: the integer below it, and one more when the
\* fraction is at least a half
mathRound(x) ==
    IF x = Zero THEN 0
    ELSE IF x.exponent < -1 THEN 0
    ELSE IF x.exponent = -1 THEN 1
    ELSE LET whole == valueOf(SubSeq(x.bits, 1, x.exponent + 1))
             half  == IF x.exponent + 2 <= Precision THEN x.bits[x.exponent + 2] ELSE 0
         IN  whole + half

\* Math.floor of a double >= 0
mathFloor(x) ==
    IF x = Zero THEN 0
    ELSE IF x.exponent < 0 THEN 0
    ELSE valueOf(SubSeq(x.bits, 1, x.exponent + 1))

\* String.prototype.repeat: a RangeError on a negative count
RECURSIVE repeat(_, _)
repeat(str, count) == IF count = 0 THEN <<>> ELSE <<str>> \o repeat(str, count - 1)

\* generateProgressBar that truncates where the code rounds
generateProgressBar_truncating(current, total, width) ==
    IF total = 0
    THEN Return(repeat("[U+2593]", width) \o <<" (0/0)">>)
    ELSE LET percentage == mathRound(times(divide(current, total), 100))
             filled     == mathFloor(times(divide(current, total), width))
             empty      == width - filled
         IN  IF filled < 0 \/ empty < 0 THEN Throw("RangeError")
             ELSE Return(repeat("[U+2593]", filled) \o repeat("[U+2591]", empty)
                         \o <<" ">> \o ToStr(percentage) \o <<"% (">> \o ToStr(current)
                         \o <<"/">> \o ToStr(total) \o <<")">>)

generateProgressBar(current, total, width) ==
    IF total = 0
    THEN Return(repeat("[U+2593]", width) \o <<" (0/0)">>)
    ELSE LET percentage == mathRound(times(divide(current, total), 100))
             filled     == mathRound(times(divide(current, total), width))
             empty      == width - filled
         IN  IF filled < 0 \/ empty < 0 THEN Throw("RangeError")
             ELSE Return(repeat("[U+2593]", filled) \o repeat("[U+2591]", empty)
                         \o <<" ">> \o ToStr(percentage) \o <<"% (">> \o ToStr(current)
                         \o <<"/">> \o ToStr(total) \o <<")">>)

\* current and previous are properties: an undefined current makes the
\* difference NaN, which is neither above nor below 0
generateTrendingIndicator(current, previous) ==
    IF previous = <<>> THEN <<>>
    ELSE IF current = <<>> THEN <<"[U+27A1][U+FE0F] [U+00B1]0">>
    ELSE LET difference == current[1] - previous[1]
         IN  IF difference > 0 THEN <<"[U+1F4C8] +">> \o ToStr(difference)
             ELSE IF difference < 0 THEN <<"[U+1F4C9] ">> \o ToStr(difference)
             ELSE <<"[U+27A1][U+FE0F] [U+00B1]0">>

\* Object.keys(workflows).filter(w => workflows[w] === 'success')
RECURSIVE successful(_)
successful(workflows) ==
    IF workflows = <<>> THEN <<>>
    ELSE (IF Head(workflows).status = <<"s", "u", "c", "c", "e", "s", "s">> THEN <<Head(workflows).name>> ELSE <<>>)
         \o successful(Tail(workflows))

\* the call of generateProgressBar in the dashboard: the successful
\* workflows out of all workflows, with the default width
DefaultWidth == 20

scanProgress(workflows) == [current |-> Len(successful(workflows)), total |-> Len(workflows)]

breakdownLine(label, vulnerabilities, previousScan, name) ==
    <<label>> \o ToStr(OrDefault(Property(vulnerabilities, name), 0)) \o <<"** ">>
    \o generateTrendingIndicator(Property(vulnerabilities, name), Property(previousScan, name))

generateSecurityDashboard(data) ==
    LET vulnerabilities == OrDefault(Property(data, "vulnerabilities"), <<>>)
        workflows       == OrDefault(Property(data, "workflows"), <<>>)
        compliance      == OrDefault(Property(data, "compliance"), <<>>)
        previousScan    == OrDefault(Property(data, "previousScan"), <<>>)
        securityScore   == generateSecurityScore(vulnerabilities)
        riskBadge       == generateRiskBadge(OrDefault(Property(vulnerabilities, "critical"), 0),
                                             OrDefault(Property(vulnerabilities, "high"), 0),
                                             OrDefault(Property(vulnerabilities, "medium"), 0),
                                             OrDefault(Property(vulnerabilities, "low"), 0))
        progress        == scanProgress(workflows)
        progressBar     == generateProgressBar(progress.current, progress.total, DefaultWidth)
    IN  IF progressBar.kind = "throw" THEN progressBar
        ELSE Return(
            NL \o <<"### [U+1F4CA] Security Dashboard">> \o NL \o NL
            \o riskBadge \o <<" ">> \o securityScore.badge \o NL \o NL
            \o <<"**Vulnerability Breakdown:**">> \o NL
            \o breakdownLine("- [U+1F6A8] Critical: **", vulnerabilities, previousScan, "critical")
            \o NL
            \o breakdownLine("- [U+26A0][U+FE0F] High: **", vulnerabilities, previousScan, "high")
            \o NL
            \o breakdownLine("- [U+1F7E1] Medium: **", vulnerabilities, previousScan, "medium")
            \o NL
            \o breakdownLine("- [U+1F535] Low: **", vulnerabilities, previousScan, "low")
            \o NL \o NL \o <<"**Scan Progress:**">> \o NL \o progressBar.value \o NL \o NL
            \o <<"**Workflow Status:**">> \o NL \o sb_generateWorkflowBadges(workflows)
            \o NL \o NL
            \o (IF Len(compliance) > 0
                THEN <<"**Compliance:**">> \o NL \o generateComplianceBadges(compliance)
                ELSE <<>>)
            \o NL)

\* the arguments of generateRiskBadge
RiskCounts == [critical : 0..MaxVuln, high : 0..MaxVuln, medium : 0..MaxVuln, low : 0..MaxVuln]

SeverityNames == {"critical", "high", "medium", "low"}

\* vulnerabilities objects: any of the four counts may be missing
VulnerabilityObjects == UNION {[F -> 0..MaxVuln] : F \in SUBSET SeverityNames}

WorkflowNames == {<<"S", "A", "S", "T">>, <<"C", "o", "n", "t", "a", "i", "n", "e", "r">>}

WorkflowStatuses == {<<"s", "u", "c", "c", "e", "s", "s">>, <<"f", "a", "i", "l", "u", "r", "e">>, <<"c", "a", "n", "c", "e", "l", "l", "e", "d">>, <<"q", "u", "e", "u", "e", "d">>}

\* workflows objects: the entries in the order of their keys, no key twice
Workflows ==
    {w \in SeqsUpTo([name : WorkflowNames, status : WorkflowStatuses], MaxWorkflows) :
        \A i, j \in 1..Len(w) : i # j => w[i].name # w[j].name}

DashboardVulnerabilities ==
    {<<>>, [critical |-> 1], Counts(0, 0, 0, 0), Counts(1, 0, 0, 0), Counts(2, 6, 14, 0),
     Counts(0, 1, 1, 1)}

PreviousScans == {<<>>, [critical |-> 1, high |-> 1], Counts(3, 10, 12, 5)}

ComplianceLists == {<<>>, <<"SOX", "ISO27001">>, <<"HIPAA">>}

DashboardData ==
    [vulnerabilities : DashboardVulnerabilities, workflows : Workflows,
     compliance : ComplianceLists, previousScan : PreviousScans]
    \cup [workflows : Workflows]

\* the arguments of generateProgressBar: every small call, and a larger one
\* whose exact quotient current / total * width is a half
ProgressCalls ==
    [current : 0..(MaxTotal + 1), total : 0..MaxTotal, width : 0..MaxWidth]
    \cup {[current |-> 15, total |-> 22, width |-> 11]}

InitBadges ==
    /\ pc = "ready"
    /\ op = "none"
    /\ \/ \E r \in RiskCounts : arg = [riskCounts |-> r]
       \/ \E v \in VulnerabilityObjects : arg = [vulnerabilities |-> v]
       \/ arg \in ProgressCalls
       \/ \E d \in DashboardData : arg = [data |-> d]
    /\ ret = "none"

CallGenerateRiskBadge ==
    /\ pc = "ready"
    /\ "riskCounts" \in DOMAIN arg
    /\ pc' = "returned"
    /\ op' = "generateRiskBadge"
    /\ ret' = generateRiskBadge(arg.riskCounts.critical, arg.riskCounts.high,
                                arg.riskCounts.medium, arg.riskCounts.low)
    /\ UNCHANGED arg

CallGenerateSecurityScore ==
    /\ pc = "ready"
    /\ "vulnerabilities" \in DOMAIN arg
    /\ pc' = "returned"
    /\ op' = "generateSecurityScore"
    /\ ret' = generateSecurityScore(arg.vulnerabilities)
    /\ UNCHANGED arg

CallGenerateProgressBar ==
    /\ pc = "ready"
    /\ "width" \in DOMAIN arg
    /\ op' = "generateProgressBar"
    /\ LET outcome == generateProgressBar(arg.current, arg.total, arg.width)
       IN  /\ pc' = IF outcome.kind = "throw" THEN "threw" ELSE "returned"
           /\ ret' = outcome.value
    /\ UNCHANGED arg

CallGenerateSecurityDashboard ==
    /\ pc = "ready"
    /\ "data" \in DOMAIN arg
    /\ op' = "generateSecurityDashboard"
    /\ LET outcome == generateSecurityDashboard(arg.data)
       IN  /\ pc' = IF outcome.kind = "throw" THEN "threw" ELSE "returned"
           /\ ret' = outcome.value
    /\ UNCHANGED arg

NextBadges ==
    \/ CallGenerateRiskBadge
    \/ CallGenerateSecurityScore
    \/ CallGenerateProgressBar
    \/ CallGenerateSecurityDashboard

SpecBadges == InitBadges /\ [][NextBadges]_vars

(***************************************************************************)
(* Progressive disclosure (advanced-pr-enhancements.js): a list of items   *)
(* rendered as one collapsible section, or as a section with the first     *)
(* items and a nested section with the rest.  An argument that is missing  *)
(* is <<>>, one that is supplied is <<value>>.                              *)
(***************************************************************************)
\* the longest list of items that is tried, besides the one that is longer
\* than the default threshold
MaxItems == 3

\* the largest threshold that is tried
MaxThreshold == 3

\* function generateProgressiveDisclosure(data, title, threshold = 10)
DefaultThreshold == 10

\* a relative index of slice: negative ones count from the end, and the
\* result stays within the array
relativeIndex(index, length) ==
    IF index < 0 THEN (IF length + index < 0 THEN 0 ELSE length + index)
    ELSE IF index > length THEN length ELSE index

\* Array.prototype.slice that takes the element at end as well
slice_inclusive(array, start, end) ==
    LET from == relativeIndex(start, Len(array))
        to   == relativeIndex(end, Len(array))
    IN  SubSeq(array, from + 1, IF to < Len(array) THEN to + 1 ELSE to)

\* Array.prototype.slice(start, end): the elements from start up to, and
\* not including, end
slice(array, start, end) ==
    LET from == relativeIndex(start, Len(array))
        to   == relativeIndex(end, Len(array))
    IN  SubSeq(array, from + 1, to)

\* items.map(item => `- ${item}`).join('\n')
itemList(items) == join([i \in 1..Len(items) |-> <<"- ", items[i]>>], NL)

\* a text is the empty string
isEmptyString(text) == \A i \in 1..Len(text) : text[i] = ""

generateProgressiveDisclosure(data, title, thresholdArgument) ==
    LET threshold == OrDefault(thresholdArgument, DefaultThreshold)
    IN  IF data = <<>> \/ Len(data[1]) <= threshold
        THEN LET length == IF data = <<>> THEN 0 ELSE Len(data[1])
                 listed == IF data = <<>> THEN <<>> ELSE itemList(data[1])
             IN  NL \o <<"<details>">> \o NL \o <<"<summary>", title, " (">>
                   \o ToStr(length) \o <<" items)</summary>">> \o NL \o NL
                   \o (IF isEmptyString(listed) THEN <<"No items found">> ELSE listed)
                   \o NL \o NL \o <<"</details>">>
        ELSE LET preview   == slice(data[1], 0, threshold)
                 remaining == slice(data[1], threshold, Len(data[1]))
             IN  NL \o <<"<details>">> \o NL \o <<"<summary>", title, " (">>
                   \o ToStr(Len(data[1])) \o <<" items - showing first ">>
                   \o ToStr(threshold) \o <<")</summary>">> \o NL \o NL
                   \o itemList(preview) \o NL \o NL
                   \o <<"<details>">> \o NL \o <<"<summary>Show ">>
                   \o ToStr(Len(remaining)) \o <<" more items...</summary>">>
                   \o NL \o NL \o itemList(remaining) \o NL \o NL
                   \o <<"</details>">> \o NL \o NL \o <<"</details>">>

(***************************************************************************)
(* The calls of generateProgressiveDisclosure.                              *)
(***************************************************************************)
\* the items of a list: findings, and an item that is the empty string
DisclosureItems == {"src/app.py:12", "src/db.py:40", ""}

\* a list that is longer than the default threshold
LongList ==
    [i \in 1..(DefaultThreshold + 1) |->
        IF i % 2 = 1 THEN "src/app.py:12" ELSE "src/db.py:40"]

\* data: missing, or a list
DisclosureData ==
    {<<>>} \cup {<<items>> : items \in SeqsUpTo(DisclosureItems, MaxItems) \cup {LongList}}

\* threshold: not supplied, or a number of items
Thresholds == {<<>>} \cup {<<n>> : n \in 0..MaxThreshold}

DisclosureTitle == "Findings"

InitDisclosure ==
    /\ pc = "ready"
    /\ op = "none"
    /\ \E data \in DisclosureData, threshold \in Thresholds :
          arg = [list |-> data, title |-> DisclosureTitle, threshold |-> threshold]
    /\ ret = "none"

CallGenerateProgressiveDisclosure ==
    /\ pc = "ready"
    /\ "threshold" \in DOMAIN arg
    /\ pc' = "returned"
    /\ op' = "generateProgressiveDisclosure"
    /\ ret' = generateProgressiveDisclosure(arg.list, arg.title, arg.threshold)
    /\ UNCHANGED arg

NextDisclosure == CallGenerateProgressiveDisclosure

SpecDisclosure == InitDisclosure /\ [][NextDisclosure]_vars

(***************************************************************************)
(* check-todos.js: the files that git lists are searched for TODO comments *)
(* and for release-utils ignore comments, and what is found is printed.    *)
(* A file name, a file content and a printed line are sequences of         *)
(* characters; the file system is a function from the names to what is     *)
(* there.                                                                   *)
(***************************************************************************)
\* the longest list of files that git gives
MaxFiles == 2

\* const x = value: the value is worked out once, and used any number of
\* times
Once(value, Use(_)) == CHOOSE result \in {Use(x) : x \in {value}} : TRUE

\* const commentPatterns: the alternatives of the comment marker, by
\* extension
commentPatterns ==
    {[ext |-> <<"p","y">>, alternatives |-> {<<"#">>}],
     [ext |-> <<"y","m","l">>, alternatives |-> {<<"#">>}],
     [ext |-> <<"y","a","m","l">>, alternatives |-> {<<"#">>}],
     [ext |-> <<"t","o","m","l">>, alternatives |-> {<<"#">>}],
     [ext |-> <<"t","f">>, alternatives |-> {<<"#">>, <<"/","/">>}],
     [ext |-> <<"m","d">>, alternatives |-> {<<"<","!","-","-">>}],
     [ext |-> <<"j","s">>, alternatives |-> {<<"/","/">>}],
     [ext |-> <<"t","s">>, alternatives |-> {<<"/","/">>}],
     [ext |-> <<"s","h">>, alternatives |-> {<<"#">>}],
     [ext |-> <<"b","a","s","h">>, alternatives |-> {<<"#">>}]}

\* commentPatterns[ext] || '#|//|<!--'
getCommentPattern(ext) ==
    IF \E e \in commentPatterns : e.ext = ext
    THEN (CHOOSE e \in commentPatterns : e.ext = ext).alternatives
    ELSE {<<"#">>, <<"/","/">>, <<"<","!","-","-">>}

UpperCase == <<"A","B","C","D","E","F","G","H","I","J","K","L","M","N","O","P","Q","R","S","T","U","V","W","X","Y","Z">>
LowerCase == <<"a","b","c","d","e","f","g","h","i","j","k","l","m","n","o","p","q","r","s","t","u","v","w","x","y","z">>

\* the flag i of a regular expression: letters are compared in lower case
toLowerCase(ch) ==
    IF \E k \in 1..26 : UpperCase[k] = ch
    THEN LowerCase[CHOOSE k \in 1..26 : UpperCase[k] = ch]
    ELSE ch

\* a literal of a regular expression with the flag i, at place i of a line
literalAt(line, i, literal) ==
    /\ i >= 1
    /\ i + Len(literal) - 1 <= Len(line)
    /\ \A k \in 1..Len(literal) : toLowerCase(line[i + k - 1]) = toLowerCase(literal[k])

\* \s*word\s*word... at place i of a line
RECURSIVE wordsAt(_, _, _)
wordsAt(line, i, words) ==
    IF words = <<>> THEN TRUE
    ELSE \E k \in i..(Len(line) + 1) :
            /\ \A j \in i..(k - 1) : line[j] \in WhiteSpace
            /\ literalAt(line, k, Head(words))
            /\ wordsAt(line, k + Len(Head(words)), Tail(words))

\* new RegExp(`(${pattern})\\s*word\\s*word`, 'i').test(line)
regexTest(line, pattern, words) ==
    \E i \in 1..Len(line), marker \in pattern :
        /\ literalAt(line, i, marker)
        /\ wordsAt(line, i + Len(marker), words)

\* (pattern)\s*TODO
TodoWords == <<<<"T","O","D","O">>>>

\* (pattern)\s*release-utils:\s*ignore
IgnoreWords == <<<<"r","e","l","e","a","s","e","-","u","t","i","l","s",":">>, <<"i","g","n","o","r","e">>>>

\* what is at a path: nothing, a file that may not be read, a directory, or
\* a file and its content
Missing == [kind |-> "missing"]
Unreadable == [kind |-> "unreadable"]
Directory == [kind |-> "directory"]
FileOf(content) == [kind |-> "file", content |-> content]

stateOf(fs, filePath) == IF filePath \in DOMAIN fs THEN fs[filePath] ELSE Missing

\* fs.existsSync(filePath)
existsSync(fs, filePath) == stateOf(fs, filePath).kind # "missing"

\* fs.readFileSync(filePath, 'utf8'): the content, or the error it throws
readFileSync(fs, filePath) ==
    LET state == stateOf(fs, filePath)
    IN  IF state.kind = "file" THEN Return(state.content)
        ELSE IF state.kind = "missing" THEN Throw("ENOENT")
        ELSE IF state.kind = "unreadable" THEN Throw("EACCES")
        ELSE Throw("EISDIR")

\* does a name end with a literal
endsWith(name, literal) == StartsWithAt(name, Len(name) - Len(literal) + 1, literal)

\* excludePatterns.some(pattern => pattern.test(file))
excluded(file) ==
    \/ StartsWithAt(file, 1, <<"d","o","c","s","/">>)
    \/ StartsWithAt(file, 1, <<"b","a","c","k","e","n","d","/","n","o","t","e","b","o","o","k","s","/","i","m","a","g","e","s","/">>)
    \/ \E e \in {<<".","j","p","g">>, <<".","j","p","e","g">>, <<".","p","n","g">>, <<".","p","d","f">>, <<".","p","y","c">>} : endsWith(file, e)
    \/ includes(file, <<".","g","i","t","/">>)
    \/ includes(file, <<"n","o","d","e","_","m","o","d","u","l","e","s","/">>)

GitWarning == <<"W","a","r","n","i","n","g",":"," ","C","o","u","l","d"," ","n","o","t"," ","g","e","t"," ","g","i","t"," ","f","i","l","e","s"," ","l","i","s","t">>

\* getGitFiles: the files that git lists without the excluded ones, or no
\* file and a warning when git fails
getGitFiles(git) ==
    IF git.kind = "throw" THEN Return([files |-> <<>>, console |-> <<GitWarning>>])
    ELSE Return([files |-> SelectSeq(split(trim(git.value), "\n"), LAMBDA file : ~excluded(file)),
                 console |-> <<>>])

\* the lines of a content that the expression matches, each with its number
matchingLines(content, pattern, words) ==
    LET lines    == split(content, "\n")
        numbered == [i \in 1..Len(lines) |-> [index |-> i, line |-> lines[i]]]
    IN  Once(SelectSeq(numbered, LAMBDA e : regexTest(e.line, pattern, words)),
             LAMBDA hits : [k \in 1..Len(hits) |->
                               ToStr(hits[k].index) \o <<":">> \o trim(hits[k].line)])

\* searchInFile with no catch around the read
searchInFile_uncaught(fs, filePath, pattern) ==
    IF ~existsSync(fs, filePath) THEN Return(<<>>)
    ELSE LET content == readFileSync(fs, filePath)
         IN  IF content.kind = "throw" THEN content
             ELSE Return(matchingLines(content.value, pattern, TodoWords))

\* searchInFile: the TODO lines of a file; none when the file is not there
\* or the read throws
searchInFile(fs, filePath, pattern) ==
    IF ~existsSync(fs, filePath) THEN Return(<<>>)
    ELSE LET content == readFileSync(fs, filePath)
         IN  IF content.kind = "throw" THEN Return(<<>>)
             ELSE Return(matchingLines(content.value, pattern, TodoWords))

\* path.extname(file): from the last dot of the last part of the path, when
\* that dot is not its first character
extname(file) ==
    LET slashes == {i \in 1..Len(file) : file[i] = "/"}
        base    == IF slashes = {} THEN file
                   ELSE SubSeq(file, (CHOOSE i \in slashes : \A j \in slashes : j <= i) + 1,
                               Len(file))
        dots    == {i \in 2..Len(base) : base[i] = "."}
    IN  IF dots = {} THEN <<>>
        ELSE SubSeq(base, CHOOSE i \in dots : \A j \in dots : j <= i, Len(base))

\* const content = fs.readFileSync(file, 'utf8') ... in its try: the
\* release-utils ignore findings of a file, none when the read throws
ignoresOf(fs, file, pattern) ==
    LET content == readFileSync(fs, file)
    IN  IF content.kind = "throw" THEN <<>>
        ELSE Once(matchingLines(content.value, pattern, IgnoreWords),
                  LAMBDA lines : [k \in 1..Len(lines) |-> file \o <<":">> \o lines[k]])

\* the body of files.forEach(file => ...): the TODO finding and the ignore
\* findings of one file, or the error that escapes
checkFile(fs, file) ==
    LET dotted  == extname(file)
        ext     == SubSeq(dotted, 2, Len(dotted))
        pattern == getCommentPattern(ext)
    IN  Once(searchInFile(fs, file, pattern),
             LAMBDA todoMatches :
                 IF todoMatches.kind = "throw" THEN todoMatches
                 ELSE Return([todos   |-> IF Len(todoMatches.value) > 0
                                          THEN <<file \o <<":", " ">>
                                                   \o join(todoMatches.value, <<",", " ">>)>>
                                          ELSE <<>>,
                              ignores |-> ignoresOf(fs, file, pattern)]))

\* files.forEach(file => ...): todos and ignores after the files, or the
\* error that escapes from the first file that throws
forEachFile(fs, files) ==
    Once([i \in 1..Len(files) |-> checkFile(fs, files[i])],
         LAMBDA results :
             LET thrown == {i \in 1..Len(files) : results[i].kind = "throw"}
             IN  IF thrown # {} THEN results[Min(thrown)]
                 ELSE Return([todos   |-> join([i \in 1..Len(files) |-> results[i].value.todos],
                                               <<>>),
                              ignores |-> join([i \in 1..Len(files) |-> results[i].value.ignores],
                                               <<>>)]))

Running == <<"R","u","n","n","i","n","g"," ","T","O","D","O"," ","c","h","e","c","k","e","r",".",".",".">>

\* printWarning: the message between the colour codes
printWarning(message) == <<"\\x1b[33m">> \o message \o <<"\\x1b[0m">>

TodoWarning == printWarning(<<"*","*","*","*","*","*","*","*","*","*"," ","W","A","R","N","I","N","G",":"," ","T","O","D","O"," ","C","h","e","c","k"," ","F","a","i","l","e","d"," ","*","*","*","*","*","*","*","*","*","*">>)

IgnoreWarning ==
    printWarning(<<"*","*","*","*","*","*","*","*","*","*"," ","W","A","R","N","I","N","G",":"," ","r","e","l","e","a","s","e","-","u","t","i","l","s"," ","I","g","n","o","r","e"," ","C","h","e","c","k"," ","F","a","i","l","e","d"," ","*","*","*","*","*","*","*","*","*","*">>)

\* Display results: what is printed for the findings
display(todos, ignores) ==
    (IF Len(todos) > 0 THEN <<TodoWarning>> \o todos ELSE <<>>)
    \o (IF Len(ignores) > 0 THEN <<IgnoreWarning>> \o ignores ELSE <<>>)

\* checkTodos: what is printed, with the findings, or the error that escapes
checkTodos(git, fs) ==
    Once(getGitFiles(git),
         LAMBDA listed :
             IF listed.kind = "throw" THEN listed
             ELSE Once(forEachFile(fs, listed.value.files),
                       LAMBDA searched :
                           IF searched.kind = "throw" THEN searched
                           ELSE Return([todos   |-> searched.value.todos,
                                        ignores |-> searched.value.ignores,
                                        console |->
                                            <<Running>> \o listed.value.console
                                            \o display(searched.value.todos,
                                                       searched.value.ignores)])))

(***************************************************************************)
(* The runs of check-todos.js.                                              *)
(***************************************************************************)
\* the names that git lists
FileNames == {<<"a",".","p","y">>, <<"b",".","m","d">>, <<"d","o","c","s","/","c",".","p","y">>, <<"l","i","b">>}

\* the contents of the files
FileContents ==
    {<<"#"," ","T","O","D","O"," ","f","i","x","\n","x"," ","="," ","1">>,
     <<"<","!","-","-"," ","t","o","d","o"," ","-","-",">","\n"," "," ","#"," ","r","e","l","e","a","s","e","-","u","t","i","l","s",":"," ","i","g","n","o","r","e">>,
     <<"x"," ","="," ","1">>,
     <<"/","/","T","O","D","O","\n","/","/","r","e","l","e","a","s","e","-","u","t","i","l","s",":","i","g","n","o","r","e"," ">>}

FileStates == {Missing, Unreadable, Directory} \cup {FileOf(c) : c \in FileContents}

\* what git ls-files prints for a list of names: one name a line
gitOutput(names) == join([i \in 1..Len(names) |-> names[i] \o NL], <<>>)

\* the set of the elements of a list
elements(list) == {list[i] : i \in 1..Len(list)}

\* a run: git fails, or it lists some names, each of which is something in
\* the file system
InitTodos ==
    /\ pc = "ready"
    /\ op = "none"
    /\ \/ arg = [git |-> Throw("git"), fs |-> <<>>]
       \/ \E names \in SeqsUpTo(FileNames, MaxFiles) :
             \E fs \in [elements(names) -> FileStates] :
                arg = [git |-> Return(gitOutput(names)), fs |-> fs]
    /\ ret = "none"

\* node check-todos.js: the exit code is 0 unless an error escapes
RunCheckTodos ==
    /\ pc = "ready"
    /\ "fs" \in DOMAIN arg
    /\ op' = "checkTodos"
    /\ \E outcome \in {checkTodos(arg.git, arg.fs)} :
          /\ pc' = IF outcome.kind = "throw" THEN "threw" ELSE "returned"
          /\ ret' = [result |-> outcome.value,
                     exitCode |-> IF outcome.kind = "throw" THEN 1 ELSE 0]
    /\ UNCHANGED arg

NextTodos == RunCheckTodos

SpecTodos == InitTodos /\ [][NextTodos]_vars

(***************************************************************************)
(* All of it.                                                              *)
(***************************************************************************)
Init ==
    \/ InitParse \/ InitRisk \/ InitEpc \/ InitOverview \/ InitSync \/ InitBadges
    \/ InitDisclosure \/ InitTodos

Next ==
    \/ NextComment \/ NextRisk \/ NextOverview \/ NextSync \/ NextBadges
    \/ NextDisclosure \/ NextTodos

Spec == Init /\ [][Next]_vars

(***************************************************************************)
(* Properties of the classifier and of the action-item generator,         *)
(* checked under SpecRisk.                                                  *)
(***************************************************************************)
Returned(f) == pc = "returned" /\ op = f

\* the lines of a text
Lines(text) == split(text, "\n")

\* C1: for all non-negative integers c and h, getRiskLevel(c, h), in both
\* copies, returns CRITICAL iff c > 0; HIGH iff c = 0 and h > 5; MODERATE iff
\* c = 0 and 0 < h <= 5; LOW iff c = 0 and h = 0.
C1_RiskLevelThresholds ==
    (Returned("getRiskLevel") \/ Returned("epc_getRiskLevel")) =>
        LET c == arg.critical
            h == arg.high
        IN  /\ (ret = "CRITICAL") <=> (c > 0)
            /\ (ret = "HIGH") <=> (c = 0 /\ h > 5)
            /\ (ret = "MODERATE") <=> (c = 0 /\ 0 < h /\ h <= 5)
            /\ (ret = "LOW") <=> (c = 0 /\ h = 0)

\* the classifier has been called just above the MODERATE/HIGH boundary
C1_Witness ==
    /\ Returned("getRiskLevel")
    /\ arg.critical = 0
    /\ arg.high = 6
    /\ ret = "HIGH"

\* LOW < MODERATE < HIGH < CRITICAL
Rank(level) ==
    CASE level = "LOW"      -> 0
      [] level = "MODERATE" -> 1
      [] level = "HIGH"     -> 2
      [] level = "CRITICAL" -> 3

\* the classifier that has returned, applied to other counts
SameClassifier(critical, high) ==
    IF op = "getRiskLevel" THEN getRiskLevel(critical, high)
    ELSE epc_getRiskLevel(critical, high)

\* C15: getRiskLevel is monotonic for LOW < MODERATE < HIGH < CRITICAL: for
\* non-negative c <= c' and h <= h', the rank of getRiskLevel(c', h') is at
\* least the rank of getRiskLevel(c, h) (both copies).
C15_RiskLevelMonotonic ==
    (Returned("getRiskLevel") \/ Returned("epc_getRiskLevel")) =>
        \A c \in arg.critical..MaxVuln, h \in arg.high..MaxVuln :
            Rank(SameClassifier(c, h)) >= Rank(ret)

\* the classifier has returned MODERATE for counts that can still grow into
\* HIGH (more high findings) and into CRITICAL (a critical finding)
C15_Witness ==
    /\ Returned("epc_getRiskLevel")
    /\ arg.critical = 0
    /\ arg.high = 1
    /\ ret = "MODERATE"
    /\ Rank(SameClassifier(0, 6)) = 2
    /\ Rank(SameClassifier(1, 1)) = 3

IsActionItemsCall ==
    Returned("generateActionItems") \/ Returned("epc_generateActionItems")

\* C8: generateActionItems(0, 0, 0) returns exactly one line, the affirmative
\* GREAT JOB line; with at least one of c, h, m above 0 the result never
\* contains that line (both copies).
C8_AffirmativeLineIffClean ==
    IsActionItemsCall =>
        IF arg.critical = 0 /\ arg.high = 0 /\ arg.medium = 0
        THEN Lines(ret) = <<GreatJobLine>>
        ELSE \A i \in 1..Len(Lines(ret)) : ~includes(Lines(ret)[i], GreatJobLine)

\* the generator has been called with only a medium count above 0
C8_Witness ==
    /\ Returned("generateActionItems")
    /\ arg.critical = 0 /\ arg.high = 0 /\ arg.medium > 0
    /\ Len(Lines(ret)) = 1
    /\ ~includes(ret, GreatJobLine)

\* the advisory lines of a text: those that start with a severity tag
AdvisoryLines(text) ==
    SelectSeq(Lines(text),
              LAMBDA ln : ln # <<>> /\ ln[1] \in {UrgentTag, HighTag, MediumTag})

\* C9: generateActionItems(c, h, m) returns its advisory lines in the order
\* critical (URGENT), high (HIGH), medium (MEDIUM); the critical line is there
\* iff c > 0, the high line iff h > 0, the medium line iff m > 0, and each
\* line carries its own count (both copies).
C9_AdvisoryLinesInOrder ==
    IsActionItemsCall =>
        LET adv  == AdvisoryLines(ret)
            want == (IF arg.critical > 0
                     THEN <<[tag |-> UrgentTag, n |-> arg.critical]>> ELSE <<>>)
                 \o (IF arg.high > 0
                     THEN <<[tag |-> HighTag, n |-> arg.high]>> ELSE <<>>)
                 \o (IF arg.medium > 0
                     THEN <<[tag |-> MediumTag, n |-> arg.medium]>> ELSE <<>>)
        IN  /\ Len(adv) = Len(want)
            /\ \A i \in 1..Len(want) :
                  /\ adv[i][1] = want[i].tag
                  /\ parseInt(Tail(adv[i])) = [nan |-> FALSE, val |-> want[i].n]

\* the generator has returned all three advisory lines, with three different
\* counts
C9_Witness ==
    /\ Returned("epc_generateActionItems")
    /\ arg.critical = 1 /\ arg.high = 2 /\ arg.medium = 3
    /\ Len(AdvisoryLines(ret)) = 3

(***************************************************************************)
(* Properties of the parsers, checked under SpecParse.                     *)
(***************************************************************************)
\* the number a cell of known count denotes; 0 for a cell that is no numeral
CellValue(cell) ==
    IF cell # <<>> /\ \A i \in 1..Len(cell) : IsDigit(cell[i])
    THEN DigitsValue(cell) ELSE 0

\* the tool a row stands for, each count from the cell of its own column
ExpectedTool(r) ==
    [name     |-> r.name,
     critical |-> CellValue(r.cells[1]),
     high     |-> CellValue(r.cells[2]),
     medium   |-> CellValue(r.cells[3]),
     low      |-> CellValue(r.cells[4]),
     total    |-> CellValue(r.cells[5]),
     status   |-> r.status]

ExpectedTools(rows) == [i \in 1..Len(rows) |-> ExpectedTool(rows[i])]

RECURSIVE SumOf(_, _)
SumOf(items, field) ==
    IF items = <<>> THEN 0 ELSE Head(items)[field] + SumOf(Tail(items), field)

\* the four totals of a report are the column sums of items
TotalsAreSumsOf(data, items) ==
    /\ data.totalCritical = SumOf(items, "critical")
    /\ data.totalHigh = SumOf(items, "high")
    /\ data.totalMedium = SumOf(items, "medium")
    /\ data.totalLow = SumOf(items, "low")

AllZeroTotals(data) ==
    /\ data.totalCritical = 0
    /\ data.totalHigh = 0
    /\ data.totalMedium = 0
    /\ data.totalLow = 0

AllRowsIn(d, S) == \A i \in 1..Len(d.rows) : d.rows[i] \in S

\* a SAST report as a Markdown writer lays it out: the header row, then one
\* row per line, each starting with its pipe
IsPlainTable(d) == d.kind = "sast" /\ d.header /\ d.indent = <<>>

\* a SAST report all of whose rows are in the text the regular expression
\* captures: the rows are indented and a blank line ends the table
IsCapturedTable(d) ==
    d.kind = "sast" /\ d.header /\ d.indent = <<" ">> /\ d.tail = <<"\n", "\n">>

\* C2: round trip of the parser: for a table built from a list of tools with
\* known counts (the header row, then one row per tool on the following
\* lines), parseSASTReport returns exactly those tools, in order, with the
\* same counts, and totals equal to the column sums.
C2_RoundTrip ==
    (Returned("parseSASTReport") /\ IsPlainTable(arg.report)
        /\ AllRowsIn(arg.report, WellFormedRows)) =>
        /\ ret.tools = ExpectedTools(arg.report.rows)
        /\ TotalsAreSumsOf(ret, ExpectedTools(arg.report.rows))

\* C3: after every call of parseSASTReport or parseContainerReport, on any
\* text, the four totals returned are the elementwise sums of the counts of
\* the entries of the returned tools (resp. containers) list.
C3_TotalsAreSumsOfEntries ==
    /\ Returned("parseSASTReport") => TotalsAreSumsOf(ret, ret.tools)
    /\ Returned("parseContainerReport") => TotalsAreSumsOf(ret, ret.containers)

NoSASTHeader(d) == d.kind = "container" \/ ~d.header

NoBoldTotalRow(d) == d.kind = "sast" \/ ~d.total

\* C4: on a text with no table under the recognised header (resp. with no
\* bolded TOTAL row), parseSASTReport (resp. parseContainerReport) returns,
\* and returns an empty tool list and four totals of 0.
C4_NoTableGivesEmptyReport ==
    /\ (Returned("parseSASTReport") /\ NoSASTHeader(arg.report)) =>
          ret.tools = <<>> /\ AllZeroTotals(ret)
    /\ (Returned("parseContainerReport") /\ NoBoldTotalRow(arg.report)) =>
          ret.containers = <<>> /\ AllZeroTotals(ret)

\* parseSASTReport has returned the empty report for two well-formed rows
\* that no header precedes
C4_Witness ==
    /\ Returned("parseSASTReport")
    /\ arg.report.kind = "sast"
    /\ ~arg.report.header
    /\ arg.report.indent = <<" ">>
    /\ arg.report.tail = <<"\n", "\n">>
    /\ Len(arg.report.rows) = 2
    /\ AllRowsIn(arg.report, WellFormedRows)
    /\ ret.tools = <<>>
    /\ AllZeroTotals(ret)

\* cells that do not parse as an integer: text, and nothing at all
NonIntegerCells == {<<"x">>, <<>>}

\* C5: in parseSASTReport a data row of the matched table with a numeric cell
\* that does not parse as an integer (non-numeric or empty text) is still
\* retained as a tool, that count taken as 0 and every other cell keeping the
\* value of its own column.
C5_UnparseableCellCountsZero ==
    (Returned("parseSASTReport") /\ IsCapturedTable(arg.report)) =>
        \A i \in 1..Len(arg.report.rows) :
            LET r == arg.report.rows[i]
            IN  (r \in OddRows /\ r.cells[1] \in NonIntegerCells) =>
                    \E j \in 1..Len(ret.tools) : ret.tools[j] = ExpectedTool(r)

\* rows whose count cells are all numerals
NumeralRows == WellFormedRows \cup DriftRows

\* C6: parseSASTReport never returns a tool made from a separator row (cells
\* of dashes only, of any length) or from a row whose first cell is the
\* aggregate TOTAL, such rows add nothing to the totals, and every other data
\* row of the table is retained.
C6_SeparatorAndTotalRowsDiscarded ==
    (Returned("parseSASTReport") /\ IsCapturedTable(arg.report)
        /\ AllRowsIn(arg.report, SeparatorRows \cup TotalRows \cup NumeralRows)) =>
        LET kept == SelectSeq(arg.report.rows, LAMBDA r : r \in NumeralRows)
        IN  /\ ret.tools = ExpectedTools(kept)
            /\ TotalsAreSumsOf(ret, ExpectedTools(kept))

\* C7: every count of a report returned by parseSASTReport or
\* parseContainerReport (each tool's critical, high, medium and low, and the
\* four totals) is an integer >= 0, on any text.
C7_CountsNonNegative ==
    (Returned("parseSASTReport") \/ Returned("parseContainerReport")) =>
        /\ ret.totalCritical >= 0 /\ ret.totalHigh >= 0
        /\ ret.totalMedium >= 0 /\ ret.totalLow >= 0
        /\ Returned("parseSASTReport") =>
              \A j \in 1..Len(ret.tools) :
                  /\ ret.tools[j].critical >= 0 /\ ret.tools[j].high >= 0
                  /\ ret.tools[j].medium >= 0 /\ ret.tools[j].low >= 0

(***************************************************************************)
(* Properties of the totals, checked under SpecComment.  A rendered        *)
(* comment is read back the way its reader sees it: line by line, cell by  *)
(* cell.                                                                    *)
(***************************************************************************)
\* the line under the header of the Quick Summary table
SummarySeparator ==
    <<"|-------------|---------|-----------|---------|----------|">>

\* the five numbers of the Quick Summary row of a comment
SummaryCells(comment) ==
    LET L     == Lines(comment)
        k     == CHOOSE i \in 1..Len(L) : L[i] = SummarySeparator
        row   == L[k + 1]
        cells == split(SubSeq(row, 2, Len(row) - 1), "** | **")
    IN  [i \in 1..Len(cells) |-> parseInt(cells[i]).val]

\* the line under the header of the Container Details table
ContainerSeparator ==
    <<"|-----------|----------|------|--------|-----|-------|---------|">>

\* the rows of the Container Details table: the lines under its header, up
\* to the blank line
RECURSIVE LinesUntilBlank(_, _)
LinesUntilBlank(L, k) ==
    IF k > Len(L) \/ L[k] = <<>> THEN <<>>
    ELSE <<L[k]>> \o LinesUntilBlank(L, k + 1)

ContainerRows(comment) ==
    LET L == Lines(comment)
        k == CHOOSE i \in 1..Len(L) : L[i] = ContainerSeparator
    IN  LinesUntilBlank(L, k + 1)

\* the critical, high, medium, low and total shown in a Container Details row
ContainerRowCells(row) ==
    LET cells == split(row, " | ")
    IN  [i \in 1..5 |-> parseInt(cells[i + 1]).val]

SumsToFifth(cells) == cells[5] = cells[1] + cells[2] + cells[3] + cells[4]

Renderers ==
    {"generateEnhancedSASTComment", "generateEnhancedContainerComment",
     "generateContainerSecurityComment", "generateSASTComment"}

\* C10: every total that accompanies four severity counts equals critical +
\* high + medium + low of those counts: the Total cell of each rendered
\* summary table, and the total kept or shown for each parsed tool row and
\* each container row.
C10_EveryTotalIsTheSum ==
    /\ Returned("parseSASTReport") =>
          \A j \in 1..Len(ret.tools) :
              LET t == ret.tools[j]
              IN  t.total = t.critical + t.high + t.medium + t.low
    /\ (pc = "returned" /\ op \in Renderers) => SumsToFifth(SummaryCells(ret))
    /\ Returned("generateContainerSecurityComment") =>
          \A j \in 1..Len(ContainerRows(ret)) :
              SumsToFifth(ContainerRowCells(ContainerRows(ret)[j]))


(***************************************************************************)
(* Properties of every rendered comment, checked under Spec.               *)
(***************************************************************************)
AllRenderers ==
    Renderers \cup {"generateSecurityOverview", "generateComprehensiveSecurityOverview",
                    "generateEnhancedRemediationGuide",
                    "generateSecurityOverviewComment"}

\* a renderer has returned a comment
Rendered == pc = "returned" /\ op \in AllRenderers

\* the places of a tag among the pieces of a text
TagPlaces(text, tag) == {i \in 1..Len(text) : text[i] = tag}

\* the number of <details> tags of a text
DetailsTags(text) == Cardinality(TagPlaces(text, "<details>"))

\* reading left to right the closes never outnumber the opens, and at the
\* end the two counts are equal
DetailsBalancedIn(text) ==
    LET opens  == TagPlaces(text, "<details>")
        closes == TagPlaces(text, "</details>")
    IN  /\ \A k \in closes :
              Cardinality({j \in closes : j <= k}) <= Cardinality({i \in opens : i < k})
        /\ Cardinality(opens) = Cardinality(closes)

\* C11: in the comment every renderer returns, for every input and every
\* combination of conditional sections, the <details> and </details> tags
\* are balanced: reading left to right the closes never outnumber the opens
\* and at the end the two counts are equal.
C11_DetailsBalanced == Rendered => DetailsBalancedIn(ret)

\* the comprehensive overview has been returned with both remediation guides
\* in it: four collapsible sections
C11_Witness ==
    /\ Returned("generateSecurityOverview")
    /\ arg.module = ModuleLoaded
    /\ DetailsTags(ret) = 4

\* what the renderer that has returned gives for the same arguments when the
\* clock reads now
RenderedAt(now) ==
    CASE op = "generateEnhancedSASTComment" ->
           generateEnhancedSASTComment(arg.sastData, arg.runId, arg.repoOwner,
                                       arg.repoName, now)
      [] op = "generateEnhancedContainerComment" ->
           generateEnhancedContainerComment(arg.containerData, arg.runId,
                                            arg.repoOwner, arg.repoName, now)
      [] op = "generateContainerSecurityComment" ->
           generateContainerSecurityComment(arg.reportData, arg.runId,
                                            arg.repoInfo, now)
      [] op = "generateSASTComment" ->
           generateSASTComment(arg.reportData, arg.runId, arg.repoInfo, now)
      [] op = "generateSecurityOverview" ->
           generateSecurityOverview(arg.sastData, arg.containerData, arg.runId,
                                    arg.repoOwner, arg.repoName, arg.module, now).value
      [] op = "generateComprehensiveSecurityOverview" ->
           generateComprehensiveSecurityOverview(arg.sastData, arg.containerData,
                                                 arg.runId, arg.repoOwner,
                                                 arg.repoName, now)
      [] op = "generateSecurityOverviewComment" ->
           generateSecurityOverviewComment(arg.allReports, arg.runId,
                                           arg.repoInfo, now)
      [] op = "generateEnhancedRemediationGuide" ->
           generateEnhancedRemediationGuide(arg.sastData, arg.containerData)

\* C14: each comment renderer is a pure function of its arguments: two calls
\* with identical report data, run id and repository coordinates, made at
\* different moments, return identical strings.
C14_SameArgumentsSameComment == Rendered => \A now \in Times : ret = RenderedAt(now)

(***************************************************************************)
(* Properties of the overview comments, checked under SpecOverview.        *)
(***************************************************************************)
\* generateSecurityOverview has been called and has ended, one way or the other
OverviewEnded == op = "generateSecurityOverview" /\ pc \in {"returned", "threw"}

\* the totals generateSecurityOverview sums from its two arguments
OverviewTotal(field) == totalOf(arg.sastData, field) + totalOf(arg.containerData, field)

\* the line under the header of the component table
ComponentSeparator ==
    <<"|-----------|-------------|---------|-----------|---------|---------|">>

\* a text has a line
HasLine(text, line) ==
    \E i \in 1..(Len(text) - Len(line) + 1) :
        /\ i = 1 \/ text[i - 1] = "\n"
        /\ i + Len(line) > Len(text) \/ text[i + Len(line)] = "\n"
        /\ SubSeq(text, i, i + Len(line) - 1) = line

\* the built-in overview of the arguments: the badge of getRiskLevel of the
\* summed totals, the component table, the action items and the links
IsBuiltInOverview(text) ==
    LET level == getRiskLevel(OverviewTotal("totalCritical"), OverviewTotal("totalHigh"))
        items == generateActionItems(OverviewTotal("totalCritical"),
                                     OverviewTotal("totalHigh"),
                                     OverviewTotal("totalMedium"))
    IN  /\ HasLine(text, getRiskBadge(level) \o <<" **Overall Risk: ", level, "**">>)
        /\ HasLine(text, ComponentSeparator)
        /\ \A i \in 1..Len(Lines(items)) : HasLine(text, Lines(items)[i])
        /\ HasLine(text, <<"### [U+1F4E5] Download All Reports">>)
        /\ \E now \in Times :
              text = basicSecurityOverview(arg.sastData, arg.containerData, arg.runId,
                                           arg.repoOwner, arg.repoName, now)

\* C12: when require() cannot load advanced-pr-enhancements.js,
\* generateSecurityOverview does not throw and returns the built-in overview
\* (risk badge from getRiskLevel, component table, action items, links); when
\* the module loads, it returns exactly what the module's
\* generateComprehensiveSecurityOverview returns for the same five arguments.
C12_FallbackOrDelegate ==
    OverviewEnded =>
        /\ arg.module = ModuleNotFound => pc = "returned" /\ IsBuiltInOverview(ret)
        /\ arg.module = ModuleLoaded =>
              /\ pc = "returned"
              /\ \E now \in Times :
                    ret = generateComprehensiveSecurityOverview(
                              arg.sastData, arg.containerData, arg.runId,
                              arg.repoOwner, arg.repoName, now)

\* the module is missing and the built-in overview of a report with findings
\* has been returned
C12_Witness ==
    /\ Returned("generateSecurityOverview")
    /\ arg.module = ModuleNotFound
    /\ OverviewTotal("totalCritical") > 0
    /\ HasLine(ret, <<"### [U+1F4E5] Download All Reports">>)

\* C13: if the enhancement module loads but its
\* generateComprehensiveSecurityOverview raises an error while building the
\* comment, generateSecurityOverview does not propagate the error and still
\* returns the basic built-in overview.
C13_EnhancementErrorContained ==
    (OverviewEnded /\ arg.module = ModuleRaising) =>
        pc = "returned" /\ IsBuiltInOverview(ret)

(***************************************************************************)
(* Properties of validate-reusable-workflow-sync.sh, checked under         *)
(* SpecSync.                                                                *)
(***************************************************************************)
\* two texts are identical line by line
SameLines(a, b) == Len(a) = Len(b) /\ \A i \in 1..Len(a) : a[i] = b[i]

\* C16: validate-reusable-workflow-sync.sh exits 0 and reports "in sync" iff
\* the normalized forms of reusable-security-hardening.yml and
\* pr-reusable-security-hardening.yml are identical line by line; in every
\* other case it reports the differences and exits 1.
C16_InSyncIffNormalizedEqual ==
    Returned("validate-reusable-workflow-sync.sh") =>
        LET same == SameLines(normalize_workflow(arg.prod), normalize_workflow(arg.pr))
        IN  /\ (ret.exit = 0 /\ InSyncMessage \in {ret.messages[i] : i \in 1..Len(ret.messages)})
                <=> same
            /\ ~same =>
                  /\ ret.exit = 1
                  /\ ret.messages = <<DifferencesMessage, FailedMessage>>
                  /\ ret.differences # <<>>

\* the script has found in sync two files that differ as text: one calls the
\* scanner by its pinned tag, the other by its relative path
C16_Witness ==
    /\ Returned("validate-reusable-workflow-sync.sh")
    /\ arg.prod = <<CommentLine, PinnedScanner>>
    /\ arg.pr = <<RelativeScanner, WithLine>>
    /\ normalize_workflow(arg.prod) # <<>>
    /\ ret.exit = 0
\* the risk level an overview comment shows: the level written after the
\* badge of the Security Score, or the one written in the Risk Level badge of
\* the Security Dashboard
ShownRisk(comment) ==
    LET scores == TagPlaces(comment, " **Overall Risk: ")
        badges == TagPlaces(comment, "![Risk Level](https://img.shields.io/badge/Risk-")
    IN  IF scores # {} THEN comment[Min(scores) + 1] ELSE comment[Min(badges) + 1]

\* C17: for the same sastData and containerData, the overall risk level shown
\* by generateSecurityOverview equals getRiskLevel(totalCritical, totalHigh)
\* of the summed counts, whether the comment is produced by the advanced
\* formatter or by the built-in fallback.
C17_OverviewRiskIsGetRiskLevel ==
    Returned("generateSecurityOverview") =>
        ShownRisk(ret) = getRiskLevel(OverviewTotal("totalCritical"),
                                      OverviewTotal("totalHigh"))

\* the first piece of the Total row of the component table
TotalRowStart == "| **[U+1F3AF] Total** | **"

\* the line of a text that starts at place i
LineFrom(text, i) ==
    LET end == CHOOSE j \in i..(Len(text) + 1) :
                   /\ j = Len(text) + 1 \/ text[j] = "\n"
                   /\ \A k \in i..(j - 1) : text[k] # "\n"
    IN  SubSeq(text, i, end - 1)

\* the component rows of an overview comment: the lines of the component
\* table between its header and its Total row
ComponentRows(comment) ==
    LET k == Min(TagPlaces(comment, ComponentSeparator[1]))
        t == Min(TagPlaces(comment, TotalRowStart))
    IN  Lines(SubSeq(comment, k + 2, t - 2))

\* the critical, high, medium and low counts shown in a component row
ComponentCounts(row) ==
    LET cells == split(row, " | ")
    IN  [i \in 1..4 |-> parseInt(IF i = 1 THEN Tail(cells[1]) ELSE cells[i]).val]

\* the four counts and the issues figure shown in the Total row
TotalRowCounts(comment) ==
    LET row   == LineFrom(comment, Min(TagPlaces(comment, TotalRowStart)))
        cells == split(row, "** | **")
    IN  [i \in 1..5 |-> parseInt(IF i = 1 THEN Tail(cells[1]) ELSE cells[i]).val]

RECURSIVE ColumnSum(_, _)
ColumnSum(rows, col) ==
    IF rows = <<>> THEN 0
    ELSE ComponentCounts(Head(rows))[col] + ColumnSum(Tail(rows), col)

\* C18: in the overview comment of generateSecurityOverviewComment, each count
\* in the Total row equals the sum of that column over all component rows
\* displayed above it (SAST, Container and Infrastructure), and the issues
\* figure equals the sum of the four Total-row counts.
C18_TotalRowIsColumnSum ==
    Returned("generateSecurityOverviewComment") =>
        LET total == TotalRowCounts(ret)
        IN  /\ \A col \in 1..4 : total[col] = ColumnSum(ComponentRows(ret), col)
            /\ total[5] = total[1] + total[2] + total[3] + total[4]

OverviewRenderers ==
    {"generateSecurityOverview", "generateComprehensiveSecurityOverview",
     "generateSecurityOverviewComment"}

ExcellentLine == <<"> **[U+2705] EXCELLENT**: No security vulnerabilities detected!">>

\* C19: in any rendered overview comment, if any displayed component row
\* shows critical > 0 then the overall risk shown is CRITICAL and the
\* affirmative GREAT JOB / EXCELLENT line is absent.
C19_CriticalRowMeansCriticalRisk ==
    (pc = "returned" /\ op \in OverviewRenderers) =>
        LET rows == ComponentRows(ret)
        IN  (\E r \in 1..Len(rows) : ComponentCounts(rows[r])[1] > 0) =>
                /\ ShownRisk(ret) = "CRITICAL"
                /\ ~HasLine(ret, GreatJobLine)
                /\ ~HasLine(ret, ExcellentLine)

(***************************************************************************)
(* Properties of the titles of the SAST and Container comments, checked    *)
(* under SpecComment.                                                       *)
(***************************************************************************)
\* the emoji at the end of the title, the first line of a comment
TitleEmoji(comment) == Tail(LineFrom(comment, 1))

\* the risk level written in the Quick Summary of a comment
DisplayedRisk(comment) == comment[Min(TagPlaces(comment, " **Risk Level: ")) + 1]

\* C20: in every rendered SAST and Container comment the emoji in the title is
\* the one the display lookup (getRiskEmoji) assigns to the displayed risk
\* level, so both script families show the same title emoji for the same
\* counts.
C20_TitleEmojiIsLookup ==
    (pc = "returned" /\ op \in Renderers) =>
        TitleEmoji(ret) = epc_getRiskEmoji(DisplayedRisk(ret))

(***************************************************************************)
(* Properties of the security badges, checked under SpecBadges.            *)
(***************************************************************************)
\* the message of the first badge of a text: what stands between the first
\* two dashes of its address
BadgeMessage(text) ==
    LET first  == Min(TagPlaces(text, "-"))
        second == Min({i \in TagPlaces(text, "-") : i > first})
    IN  SubSeq(text, first + 1, second - 1)

\* the levels of getRiskLevel as they are written on a badge
LevelName ==
    [CRITICAL |-> <<"C", "R", "I", "T", "I", "C", "A", "L">>, HIGH |-> <<"H", "I", "G", "H">>, MODERATE |-> <<"M", "O", "D", "E", "R", "A", "T", "E">>, LOW |-> <<"L", "O", "W">>]

\* C21: the risk level on the badge of generateRiskBadge(critical, high,
\* medium, low) depends on (critical, high) only: calls that differ only in
\* medium or low show the same level, and that level is the one
\* getRiskLevel(critical, high) returns.
C21_RiskBadgeLevelIsGetRiskLevel ==
    Returned("generateRiskBadge") =>
        LET c == arg.riskCounts
        IN  /\ BadgeMessage(ret) = LevelName[getRiskLevel(c.critical, c.high)]
            /\ \A medium, low \in 0..MaxVuln :
                   BadgeMessage(generateRiskBadge(c.critical, c.high, medium, low))
                       = BadgeMessage(ret)

\* the grade written on the score badge of a dashboard, as it is encoded in
\* the address: what stands between the parentheses of the message
ShownGrade(text) ==
    LET open  == Min(TagPlaces(text, "("))
        close == Min({i \in TagPlaces(text, ")") : i > open})
    IN  SubSeq(text, open + 1, close - 1)

\* C27: in generateSecurityDashboard, whenever the risk badge shows CRITICAL
\* the grade of the security score shown next to it is below A, never A+
\* nor A.
C27_CriticalRiskMeansGradeBelowA ==
    Returned("generateSecurityDashboard") =>
        (BadgeMessage(ret) = LevelName["CRITICAL"] =>
            ShownGrade(ret) \notin {encodeURIComponent(<<"A", "+">>), encodeURIComponent(<<"A">>)})

\* a count of a vulnerabilities object, 0 when it is missing
CountOrZero(vulnerabilities, name) ==
    IF name \in DOMAIN vulnerabilities THEN vulnerabilities[name] ELSE 0

\* the weighted penalty of a vulnerabilities object
Penalty(v) ==
    (10 * CountOrZero(v, "critical")) + (5 * CountOrZero(v, "high"))
    + (2 * CountOrZero(v, "medium")) + CountOrZero(v, "low")

\* C28: generateSecurityScore returns score = max(0, 100 - (10*critical +
\* 5*high + 2*medium + low)), missing counts taken as 0, so 0 <= score <= 100,
\* and grade A+ for score >= 90, A for >= 80, B for >= 70, C for >= 60, D for
\* >= 50 and F below 50.
C28_ScoreAndGrade ==
    Returned("generateSecurityScore") =>
        LET penalty == Penalty(arg.vulnerabilities)
        IN  /\ ret.score = (IF penalty >= 100 THEN 0 ELSE 100 - penalty)
            /\ ret.score \in 0..100
            /\ ret.grade = (CASE ret.score >= 90 -> <<"A", "+">>
                              [] ret.score \in 80..89 -> <<"A">>
                              [] ret.score \in 70..79 -> <<"B">>
                              [] ret.score \in 60..69 -> <<"C">>
                              [] ret.score \in 50..59 -> <<"D">>
                              [] ret.score < 50 -> <<"F">>)

\* a score kept at 0 by the penalty of an object with a missing count
C28_Witness ==
    /\ Returned("generateSecurityScore")
    /\ DOMAIN arg.vulnerabilities # SeverityNames
    /\ Penalty(arg.vulnerabilities) > 100
    /\ ret.score = 0
    /\ ret.grade = <<"F">>

\* the exact quotient n / d of two integers, d > 0, rounded to the nearest
\* integer, a half going up
ExactRound(n, d) == ((2 * n) + d) \div (2 * d)

\* C29: generateProgressBar(current, total, width) with total > 0 and
\* 0 <= current <= total returns a bar of exactly width blocks,
\* round(current / total * width) of them filled; generateSecurityDashboard
\* always calls it with 0 <= current <= total, so the dashboard never fails
\* on a negative repeat count.
C29_ProgressBarBlocks ==
    /\ (op = "generateProgressBar" /\ arg.total > 0 /\ arg.current <= arg.total) =>
           /\ pc = "returned"
           /\ Cardinality(TagPlaces(ret, "[U+2593]")) + Cardinality(TagPlaces(ret, "[U+2591]"))
                  = arg.width
           /\ Cardinality(TagPlaces(ret, "[U+2593]"))
                  = ExactRound(arg.current * arg.width, arg.total)
    /\ op = "generateSecurityDashboard" =>
           /\ pc = "returned"
           /\ scanProgress(arg.data.workflows).current \in 0..scanProgress(arg.data.workflows).total

(***************************************************************************)
(* Properties of the risk lookups in the rendered comments, checked under  *)
(* Spec.                                                                    *)
(***************************************************************************)
UnknownBadge == "![Unknown](https://img.shields.io/badge/Risk-UNKNOWN-gray)"

DefaultEmoji == "[U+1F4CA]"

RiskLevels == {"CRITICAL", "HIGH", "MODERATE", "LOW"}

\* the renderers that show a risk level
LevelRenderers == AllRenderers \ {"generateEnhancedRemediationGuide"}

\* the risk level a rendered comment shows
LevelOf(comment) == IF op \in Renderers THEN DisplayedRisk(comment) ELSE ShownRisk(comment)

\* C22: no comment renderer ever emits the UNKNOWN/gray risk badge or the
\* default emoji: for all count inputs the level handed to getRiskBadge and
\* getRiskEmoji is one of CRITICAL, HIGH, MODERATE, LOW, each of which has its
\* own table entry.
C22_NoUnknownBadge ==
    (pc = "returned" /\ op \in LevelRenderers) =>
        /\ TagPlaces(ret, UnknownBadge) = {}
        /\ TagPlaces(ret, DefaultEmoji) = {}
        /\ LevelOf(ret) \in RiskLevels

\* a comment of part_000 at the level MODERATE, with the badge of that level
C22_Witness ==
    /\ Returned("generateEnhancedSASTComment")
    /\ DisplayedRisk(ret) = "MODERATE"
    /\ TagPlaces(ret, getRiskBadge("MODERATE")[1]) # {}

(***************************************************************************)
(* Properties of the container totals, checked under SpecParse.            *)
(***************************************************************************)
\* C23: for a container report with a bolded TOTAL row
\* | **TOTAL** | **a** | **b** | **c** | **d** | **e** |, parseContainerReport
\* returns totalCritical = a, totalHigh = b, totalMedium = c, totalLow = d of
\* the first such row, whatever e is and whether or not the scan overview rows
\* are there; scannedContainers and buildFailures come only from the
\* Containers Scanned and Build Failures rows and are 0 without them.
C23_TotalsFromFirstTotalRow ==
    (Returned("parseContainerReport") /\ arg.report.kind = "container") =>
        LET d == arg.report
        IN  /\ d.total =>
                  /\ ret.totalCritical = d.counts[1]
                  /\ ret.totalHigh = d.counts[2]
                  /\ ret.totalMedium = d.counts[3]
                  /\ ret.totalLow = d.counts[4]
            /\ d.overview => ret.scannedContainers = 2 /\ ret.buildFailures = 1
            /\ ~d.overview => ret.scannedContainers = 0 /\ ret.buildFailures = 0

\* a report with two TOTAL rows, a last cell that is not the sum, and no
\* scan overview
C23_Witness ==
    /\ Returned("parseContainerReport")
    /\ arg.report.kind = "container"
    /\ arg.report.total /\ arg.report.again /\ ~arg.report.overview
    /\ arg.report.drift = 1
    /\ arg.report.counts[4] = 1
    /\ ret.totalLow = 1
    /\ ret.scannedContainers = 0

(***************************************************************************)
(* Properties of the in-sync verdict against the documented differences,   *)
(* checked under SpecSync.                                                  *)
(***************************************************************************)
\* the path of a scanner workflow as the production workflow writes it
PinnedPath ==
    <<"h","u","n","t","r","i","d","g","e","-","l","a","b","s","/","h","a","r",
      "d","e","n","i","n","g","-","w","o","r","k","f","l","o","w","s","/",".",
      "g","i","t","h","u","b","/","w","o","r","k","f","l","o","w","s","/">>

\* the path of a scanner workflow as the PR workflow writes it
RelativePath ==
    <<".","/",".","g","i","t","h","u","b","/","w","o","r","k","f","l","o","w",
      "s","/">>

\* a scanner reference read as the relative one: the pinned path becomes
\* the relative path and the tag after it is dropped; any other line is
\* itself
AsRelative(line) ==
    LET hits == {i \in 1..Len(line) : PatternAt(line, i, PinnedPath)}
    IN  IF hits = {} THEN line
        ELSE LET i    == Min(hits)
                 rest == SubSeq(line, i + Len(PinnedPath), Len(line))
                 ats  == {j \in 1..Len(rest) : rest[j] = "@"}
                 path == IF ats = {} THEN rest ELSE SubSeq(rest, 1, Min(ats) - 1)
             IN  SubSeq(line, 1, i - 1) \o RelativePath \o path

\* the lines in which the two workflows may differ besides the scanner
\* references: the comment lines and the line of the workflow name
MayDiffer(line) ==
    \/ PatternAt(line, 1, <<"#">>)
    \/ PatternAt(line, 1, <<"n","a","m","e",":">>)

\* a workflow file without the documented differences
Documented(file) ==
    LET kept == SelectSeq(file, LAMBDA line : ~MayDiffer(line))
    IN  [i \in 1..Len(kept) |-> AsRelative(kept[i])]

\* C24: if the validator reports the two workflow files in sync, the files
\* are identical except for the scanner workflow references (pinned versus
\* relative), the workflow name and the comment lines: no other added,
\* removed, duplicated or changed line passes the check.
C24_InSyncMeansIdentical ==
    (Returned("validate-reusable-workflow-sync.sh") /\ ret.exit = 0) =>
        Documented(arg.prod) = Documented(arg.pr)

\* the part of C24 that holds: two files that differ only in the documented
\* ways are reported in sync
C24_DocumentedDifferencesPass ==
    (Returned("validate-reusable-workflow-sync.sh")
       /\ Documented(arg.prod) = Documented(arg.pr)) => ret.exit = 0

(***************************************************************************)
(* Properties of the workflow badges of the comprehensive overview,        *)
(* checked under SpecOverview.                                              *)
(***************************************************************************)
\* the status a workflow badge of a comment reads: the piece after the start
\* of the badge
BadgeStatus(comment, start) == comment[Min(TagPlaces(comment, start)) + 1]

\* the Status cell of the row of the Detailed Analysis table that starts
\* with the given piece: the piece before the closing bar
RowStatus(comment, start) ==
    LET row == LineFrom(comment, Min(TagPlaces(comment, start)))
    IN  row[Len(row) - 1]

SastBadgeStart == "![SAST](https://img.shields.io/badge/SAST-"
ContainerBadgeStart == "![Container](https://img.shields.io/badge/Container-"
SastRowStart == "| [U+1F50D] SAST Analysis | "
ContainerRowStart == "| [U+1F433] Container Security | "

\* a badge and a row agree: passing with Complete, failing with Pending
BadgeAgreesWithRow(comment, badge, row) ==
    /\ BadgeStatus(comment, badge) = "passing"
         <=> RowStatus(comment, row) = "[U+2705] Complete"
    /\ BadgeStatus(comment, badge) = "failing"
         <=> RowStatus(comment, row) = "[U+26A0][U+FE0F] Pending"

\* C25: in the comprehensive overview, the SAST (resp. Container) workflow
\* badge reads passing iff the SAST (resp. Container) row of the Detailed
\* Analysis table reads Complete, and failing iff that row reads Pending,
\* for every value of the data argument: an object, null, or not supplied.
C25_BadgeAgreesWithTable ==
    Returned("generateComprehensiveSecurityOverview") =>
        /\ BadgeAgreesWithRow(ret, SastBadgeStart, SastRowStart)
        /\ BadgeAgreesWithRow(ret, ContainerBadgeStart, ContainerRowStart)

\* the part of C25 that holds: when both arguments are objects or null the
\* badges and the rows agree
C25_AgreeWhenSupplied ==
    (Returned("generateComprehensiveSecurityOverview")
       /\ arg.sastData # Undefined /\ arg.containerData # Undefined) =>
        /\ BadgeAgreesWithRow(ret, SastBadgeStart, SastRowStart)
        /\ BadgeAgreesWithRow(ret, ContainerBadgeStart, ContainerRowStart)

\* an argument that was not supplied: the badge reads passing and the row
\* reads Pending
C25_NotSupplied ==
    (Returned("generateComprehensiveSecurityOverview") /\ arg.sastData = Undefined) =>
        /\ BadgeStatus(ret, SastBadgeStart) = "passing"
        /\ RowStatus(ret, SastRowStart) = "[U+26A0][U+FE0F] Pending"

(***************************************************************************)
(* Properties of the progressive disclosure, checked under SpecDisclosure. *)
(***************************************************************************)
\* the list that was passed: no item when data is missing
GivenItems == IF arg.list = <<>> THEN <<>> ELSE arg.list[1]

\* the threshold in force
GivenThreshold == OrDefault(arg.threshold, DefaultThreshold)

\* the places where an item line starts, from place a to place b of a text
ItemPlaces(text, a, b) ==
    {i \in a..b : text[i] = "- " /\ (i = 1 \/ text[i - 1] = "\n")}

\* the items listed from place a to place b of a text, in order: what each
\* item line holds after its dash
ListedItems(text, a, b) ==
    LET places == ItemPlaces(text, a, b)
        nth(k) == CHOOSE i \in places : Cardinality({j \in places : j < i}) = k - 1
    IN  [k \in 1..Cardinality(places) |-> LineFrom(text, nth(k) + 1)]

\* an item as the line it makes
ItemText(item) == <<item>>

\* the number written between two pieces of a text
NumberBetween(text, opening, closing) ==
    LET a == Min(TagPlaces(text, opening))
        b == Min(TagPlaces(text, closing))
    IN  parseInt(SubSeq(text, a + 1, b - 1)).val

\* C26: every item of data appears in the output exactly once and in input
\* order; if data has at most threshold items there is a single section
\* listing all of them (or No items found with a count of 0 for a missing or
\* empty list); otherwise the outer section lists exactly the first
\* threshold items and exactly one nested section lists the remaining
\* length - threshold items, with the counts in both summaries matching.
C26_ItemsOnceInOrder ==
    Returned("generateProgressiveDisclosure") =>
        LET items    == GivenItems
            expected == [k \in 1..Len(items) |-> ItemText(items[k])]
            sections == TagPlaces(ret, "<details>")
        IN  /\ ListedItems(ret, 1, Len(ret)) = expected
            /\ Cardinality(sections) = Cardinality(TagPlaces(ret, "</details>"))
            /\ IF Len(items) <= GivenThreshold
               THEN /\ Cardinality(sections) = 1
                    /\ NumberBetween(ret, " (", " items)</summary>") = Len(items)
                    /\ (TagPlaces(ret, "No items found") # {}) <=> (items = <<>>)
               ELSE LET inner == CHOOSE i \in sections : \A j \in sections : j <= i
                    IN  /\ Cardinality(sections) = 2
                        /\ TagPlaces(ret, "No items found") = {}
                        /\ ListedItems(ret, 1, inner) = SubSeq(expected, 1, GivenThreshold)
                        /\ ListedItems(ret, inner, Len(ret))
                             = SubSeq(expected, GivenThreshold + 1, Len(items))
                        /\ NumberBetween(ret, " (", " items - showing first ") = Len(items)
                        /\ NumberBetween(ret, " items - showing first ", ")</summary>")
                             = GivenThreshold
                        /\ NumberBetween(ret, "<summary>Show ", " more items...</summary>")
                             = Len(items) - GivenThreshold

\* a list longer than its threshold has been rendered in two sections, the
\* first of them not empty
C26_Witness ==
    /\ Returned("generateProgressiveDisclosure")
    /\ arg.threshold = <<2>>
    /\ Len(GivenItems) = 3
    /\ Cardinality(TagPlaces(ret, "<details>")) = 2

\* a list longer than the default threshold has been rendered with no
\* threshold supplied
C26_DefaultThreshold ==
    /\ Returned("generateProgressiveDisclosure")
    /\ arg.threshold = <<>>
    /\ Len(GivenItems) = DefaultThreshold + 1
    /\ NumberBetween(ret, "<summary>Show ", " more items...</summary>") = 1

(***************************************************************************)
(* Properties of check-todos.js, checked under SpecTodos.                   *)
(***************************************************************************)
\* the names that git has listed in a run
ListedNames ==
    IF arg.git.kind = "throw" THEN <<>> ELSE split(trim(arg.git.value), "\n")

\* a name of the list is a file that can be read
CanBeRead(name) == stateOf(arg.fs, name).kind = "file"

\* a finding is about a file: it starts with the name of the file and a
\* colon
IsAbout(finding, name) == StartsWithAt(finding, 1, name \o <<":">>)

\* the findings of the same run over the files of the list that can be read
FindingsOfReadable ==
    checkTodos(Return(gitOutput(SelectSeq(ListedNames, CanBeRead))), arg.fs).value

\* C30: checkTodos always runs to completion without throwing: when git
\* ls-files fails it checks no files, and a file that is missing or
\* unreadable contributes no finding while every remaining file in the list
\* is still checked; TODO and release-utils findings are only printed as
\* warnings.
C30_RunsToCompletion ==
    op = "checkTodos" =>
        /\ pc = "returned"
        /\ ret.exitCode = 0
        /\ arg.git.kind = "throw" =>
              /\ ret.result.todos = <<>>
              /\ ret.result.ignores = <<>>
              /\ ret.result.console = <<Running, GitWarning>>
        /\ \A i \in 1..Len(ListedNames) :
              ~CanBeRead(ListedNames[i]) =>
                  /\ \A k \in 1..Len(ret.result.todos) :
                        ~IsAbout(ret.result.todos[k], ListedNames[i])
                  /\ \A k \in 1..Len(ret.result.ignores) :
                        ~IsAbout(ret.result.ignores[k], ListedNames[i])
        /\ arg.git.kind = "return" =>
              /\ ret.result.todos = FindingsOfReadable.todos
              /\ ret.result.ignores = FindingsOfReadable.ignores
        /\ \A k \in 1..Len(ret.result.console) :
              \/ ret.result.console[k] \in {Running, GitWarning, TodoWarning, IgnoreWarning}
              \/ \E j \in 1..Len(ret.result.todos) :
                    ret.result.console[k] = ret.result.todos[j]
              \/ \E j \in 1..Len(ret.result.ignores) :
                    ret.result.console[k] = ret.result.ignores[j]

\* a run has met a file that may not be read and then a file with a TODO:
\* the second one is reported, and only it
C30_Witness ==
    /\ pc = "returned"
    /\ op = "checkTodos"
    /\ ListedNames = <<<<"b",".","m","d">>, <<"a",".","p","y">>>>
    /\ stateOf(arg.fs, <<"b",".","m","d">>) = Unreadable
    /\ ret.result.todos = <<<<"a",".","p","y",":"," ","1",":","#"," ","T","O","D","O"," ","f","i","x">>>>
    /\ ret.result.console = <<Running, TodoWarning, <<"a",".","p","y",":"," ","1",":","#"," ","T","O","D","O"," ","f","i","x">>>>

\* a run in which git has failed
C30_GitFailed ==
    /\ pc = "returned"
    /\ op = "checkTodos"
    /\ arg.git.kind = "throw"
    /\ ret.exitCode = 0
=============================================================================
